---- MODULE Spec2Model ----
(***************************************************************************)
(* A model of excalidraw-mcp: the checkpoint stores                        *)
(* (src/src/checkpoint-store.ts), the server's tool handlers               *)
(* (src/src/server.ts) and the widget's reconciliation of a batch          *)
(* (src/src/mcp-app.tsx).                                                  *)
(*                                                                         *)
(* Representation.  A checkpoint id is a sequence of one-character         *)
(* strings, so that the id regular expression and the length test are      *)
(* computed character by character.  A JSON text is represented by the     *)
(* value it denotes together with its length in UTF-16 code units          *)
(* (Stringify / Parse); the length of an element's text is carried by the  *)
(* element in its field bytes, which stands for its opaque geometry and    *)
(* style.                                                                  *)
(***************************************************************************)
EXTENDS Integers, Sequences, FiniteSets, TLC

VARIABLES
    backend,       \* which CheckpointStore the process was constructed with
    env,           \* process.env: the four variables of the remote store
    memoryStore,   \* the Map of MemoryCheckpointStore, in insertion order
    dir,           \* the checkpoint directory: file name -> content, mtime
    redis,         \* the remote key-value store: key -> value
    now,           \* the last clock value the file system stamped a file with
    calls,         \* the file-store saves in flight, per caller
    ops,           \* number of save calls started (bounds the exploration)
    writeLog,      \* history: the ids of the successful writes, oldest first
    issued,        \* the checkpoint ids create_view has generated so far
    localStorage,  \* the widget's localStorage: checkpoint id -> stored value
    elementsRef,   \* the widget's elementsRef.current
    svgViewportRef,\* the widget's svgViewportRef.current
    view,          \* what the widget's last final input gave, and the scene
    anim,          \* animatedVP, targetVP, the frames requested, svgRef
    stream,        \* the input being streamed, latestRef, restoredRef, strokes
    last           \* history: what the step just taken did

vars == <<backend, env, memoryStore, dir, redis, now, calls, ops, writeLog, issued,
          localStorage, elementsRef, svgViewportRef, view, anim, stream,
          last>>

clientVars ==
    <<localStorage, elementsRef, svgViewportRef, view, anim, stream>>

(***************************************************************************)
(* Bounds of the exploration                                               *)
(***************************************************************************)
\* MAX_FILE_CHECKPOINTS is 100 in the source; the model explores a small cap.
MAX_FILE_CHECKPOINTS == 2
\* number of save calls one behaviour starts
MaxOps == 4
\* MaxRenders is the largest number of renders of the animation explored
MaxRenders == 2

(***************************************************************************)
(* Program constants                                                       *)
(***************************************************************************)
MAX_CHECKPOINT_BYTES == 5 * 1024 * 1024
MAX_INPUT_BYTES == 5 * 1024 * 1024
MAX_ID_LENGTH == 64

Procs == {"p1", "p2"}
Backends == {"memory", "file", "redis"}

(***************************************************************************)
(* Checkpoint ids and validateCheckpointId                                 *)
(***************************************************************************)
LowerCase == {"a","b","c","d","e","f","g","h","i","j","k","l","m",
              "n","o","p","q","r","s","t","u","v","w","x","y","z"}
UpperCase == {"A","B","C","D","E","F","G","H","I","J","K","L","M",
              "N","O","P","Q","R","S","T","U","V","W","X","Y","Z"}
Digits == {"0","1","2","3","4","5","6","7","8","9"}

\* the character class [a-zA-Z0-9_-]
IdChars == LowerCase \cup UpperCase \cup Digits \cup {"_", "-"}
IdChar(c) == c \in IdChars

\* /^[a-zA-Z0-9_-]+$/.test(id)
IdRegexTest(id) == Len(id) >= 1 /\ \A i \in 1..Len(id) : IdChar(id[i])

\* validateCheckpointId without the length test
validateCheckpointIdNoLength(id) ==
    IF ~IdRegexTest(id) THEN "invalid_id_charset" ELSE "ok"

\* validateCheckpointId: "ok", or the error it throws
validateCheckpointId(id) ==
    IF ~IdRegexTest(id) THEN "invalid_id_charset"
    ELSE IF Len(id) > MAX_ID_LENGTH THEN "invalid_id_length"
    ELSE "ok"

Repeat(c, n) == [i \in 1..n |-> c]

ValidIds == { <<"a">>, <<"b", "_", "2">>, <<"C", "-", "3">> }
ShortestId == <<"a">>
LongestValidId == Repeat("x", MAX_ID_LENGTH)
InvalidIds == { << >>,                               \* empty
                <<".", ".", "/", "a">>,              \* path traversal
                <<"a", " ">>,                        \* a space
                Repeat("x", MAX_ID_LENGTH + 1) }     \* too long
StoreIds == ValidIds \cup {LongestValidId} \cup InvalidIds

(***************************************************************************)
(* JSON values and texts                                                   *)
(***************************************************************************)
\* Strings are sequences of one-character strings.  NoRef stands for the
\* value undefined of an absent field; its one item is no character, so it
\* equals no string.
NoRef == <<"<undefined>">>

\* a rectangle {x, y, width, height} is <<x, y, width, height>>; NoRect
\* stands for null
NoRect == << >>

\* an item of a batch: a drawable element or a pseudo-element.  ids is the
\* field of a delete, rect the x, y, width and height of a camera, bytes the
\* length of the item's JSON text; converted tells the elements that
\* convertToExcalidrawElements has returned from the raw ones.
Item(type, id, ids, containerId, bytes) ==
    [type |-> type, id |-> id, ids |-> ids, containerId |-> containerId,
     opacity |-> 100, rect |-> NoRect, converted |-> FALSE, bytes |-> bytes]
Drawable(type, id, containerId, bytes) == Item(type, id, NoRef, containerId, bytes)

RECURSIVE SumBytes(_)
SumBytes(s) == IF s = << >> THEN 0 ELSE Head(s).bytes + SumBytes(Tail(s))

\* the JSON value null, and the object {elements: [...]}
JsonNull == [kind |-> "null"]
ElementsObject(elements) == [kind |-> "object", elements |-> elements]

\* the legacy shape of a checkpoint: the bare array of its elements
ArrayValue(items) == [kind |-> "array", items |-> items]

\* the elements of a checkpoint value of either shape
ItemsOf(data) == IF data.kind = "array" THEN data.items ELSE data.elements

\* length of JSON.stringify({elements: [...]}): the wrapper {"elements":[]}
\* is 15 code units, the elements are separated by commas; the brackets of
\* a bare array are 2
JSONLength(data) ==
    (IF data.kind = "array" THEN 2 ELSE 15) + SumBytes(ItemsOf(data))
       + (IF Len(ItemsOf(data)) > 1 THEN Len(ItemsOf(data)) - 1 ELSE 0)

\* JSON.stringify(data): the text, as the value it denotes and its length
Stringify(data) == [json |-> data, length |-> JSONLength(data)]
\* JSON.parse(text) of a text produced by JSON.stringify
Parse(text) == text.json

SmallData1 == ElementsObject(<<Drawable("rectangle", <<"r", "1">>, NoRef, 60)>>)
SmallData2 == ElementsObject(<<Drawable("rectangle", <<"r", "1">>, NoRef, 60),
                               Drawable("text", <<"t", "1">>, <<"r", "1">>, 80)>>)
\* exactly at the cap: 15 + (MAX_CHECKPOINT_BYTES - 15) code units
LimitData == ElementsObject(<<Drawable("rectangle", <<"r", "1">>, NoRef,
                                       MAX_CHECKPOINT_BYTES - 15)>>)
\* one code unit over the cap
OversizeData == ElementsObject(<<Drawable("rectangle", <<"r", "1">>, NoRef,
                                          MAX_CHECKPOINT_BYTES - 14)>>)

\* a checkpoint of the legacy shape
LegacyData == ArrayValue(<<Drawable("rectangle", <<"r", "1">>, NoRef, 60)>>)

\* the arguments the store calls are explored with
SaveInputs ==
    (ValidIds \X {SmallData1})
    \cup {<<LongestValidId, LimitData>>, <<ShortestId, OversizeData>>}
    \cup (InvalidIds \X {SmallData1})
    \cup {<<Repeat("x", MAX_ID_LENGTH + 1), OversizeData>>}
LoadInputs == {ShortestId, LongestValidId} \cup InvalidIds
\* the arguments of the concurrent saves
RaceInputs == (ValidIds \X {SmallData1}) \cup {<<ShortestId, SmallData2>>}

\* the outcome of a call: what it returned, or the error it threw
Ok(value) == [status |-> "ok", error |-> "none", limit |-> 0, value |-> value]
Throw(error, limit) ==
    [status |-> "throw", error |-> error, limit |-> limit, value |-> JsonNull]

(***************************************************************************)
(* The size test shared by the three save methods                          *)
(***************************************************************************)
\* the size test left out
ExceedsLimitNever(serialized) == FALSE

\* serialized.length > MAX_CHECKPOINT_BYTES
ExceedsLimit(serialized) == serialized.length > MAX_CHECKPOINT_BYTES

\* the checks every save makes before it touches storage: "ok" or the throw
SaveChecks(id, data) ==
    IF validateCheckpointId(id) # "ok"
    THEN Throw(validateCheckpointId(id), 0)
    ELSE IF ExceedsLimit(Stringify(data))
         THEN Throw("exceeds_byte_limit", MAX_CHECKPOINT_BYTES)
         ELSE Ok(JsonNull)

(***************************************************************************)
(* MemoryCheckpointStore: a Map<string, string> in insertion order         *)
(***************************************************************************)
MapKeys(m) == {m[i].key : i \in 1..Len(m)}
MapIndex(m, k) == CHOOSE i \in 1..Len(m) : m[i].key = k
MapGet(m, k) == m[MapIndex(m, k)].value

\* Map.prototype.set: an existing key keeps its position
MapSet(m, k, v) ==
    IF k \in MapKeys(m)
    THEN [m EXCEPT ![MapIndex(m, k)].value = v]
    ELSE Append(m, [key |-> k, value |-> v])

\* memoryStore.keys().next().value deleted when the size is over the limit
EvictOldest(m) ==
    IF Len(m) > MAX_FILE_CHECKPOINTS THEN Tail(m) ELSE m

\* MemoryCheckpointStore.save, after the checks passed
MemorySave(m, id, data) == EvictOldest(MapSet(m, id, Stringify(data)))

\* MemoryCheckpointStore.load
MemoryLoad(m, id) ==
    IF validateCheckpointId(id) # "ok" THEN Throw(validateCheckpointId(id), 0)
    ELSE IF id \notin MapKeys(m) THEN Ok(JsonNull)
    ELSE Ok(Parse(MapGet(m, id)))

(***************************************************************************)
(* FileCheckpointStore: one file <id>.json per checkpoint                  *)
(***************************************************************************)
\* fs.promises.writeFile(filePath, serialized) at clock value t
WriteFile(d, id, serialized, t) ==
    [f \in (DOMAIN d) \cup {id} |->
        IF f = id THEN [content |-> serialized, mtime |-> t] ELSE d[f]]

\* the mtimes the stat calls return
StatAll(d, listing) == [f \in listing |-> d[f].mtime]

\* stats.sort by mtime, then slice(0, length - MAX_FILE_CHECKPOINTS): the sort
\* is stable and readdir's order is unspecified, so among equal mtimes any
\* file may come first
ToRemoveChoices(stats) ==
    LET n == Cardinality(DOMAIN stats) - MAX_FILE_CHECKPOINTS
    IN  { R \in SUBSET (DOMAIN stats) :
            /\ Cardinality(R) = n
            /\ \A r \in R : \A k \in (DOMAIN stats) \ R : stats[r] <= stats[k] }

\* the unlink calls; an unlink that fails is ignored
UnlinkAll(d, R) == [f \in (DOMAIN d) \ R |-> d[f]]

\* pruneOldCheckpoints run without interruption: the directories it can leave
PruneResults(d) ==
    IF Cardinality(DOMAIN d) <= MAX_FILE_CHECKPOINTS THEN {d}
    ELSE { UnlinkAll(d, R) : R \in ToRemoveChoices(StatAll(d, DOMAIN d)) }

\* FileCheckpointStore.load: readFile or JSON.parse that throws gives null
FileLoad(d, id) ==
    IF validateCheckpointId(id) # "ok" THEN Throw(validateCheckpointId(id), 0)
    ELSE IF id \notin DOMAIN d THEN Ok(JsonNull)
    ELSE IF Parse(d[id].content).kind = "invalid" THEN Ok(JsonNull)
    ELSE Ok(Parse(d[id].content))

(***************************************************************************)
(* RedisCheckpointStore: SET cp:<id> with a time to live, GET cp:<id>      *)
(***************************************************************************)
\* redis.set(`cp:${id}`, serialized, { ex: REDIS_TTL_SECONDS })
RedisSet(r, id, serialized) ==
    [k \in (DOMAIN r) \cup {id} |-> IF k = id THEN serialized ELSE r[k]]

\* RedisCheckpointStore.load
\* a variable of process.env: not there, the empty string, or a value
EnvValues == {"unset", "empty", "set"}
Envs ==
    [KV_REST_API_URL : EnvValues, KV_REST_API_TOKEN : EnvValues,
     UPSTASH_REDIS_REST_URL : EnvValues, UPSTASH_REDIS_REST_TOKEN : EnvValues]
\* the deployment with both pairs set
FullEnv ==
    [KV_REST_API_URL |-> "set", KV_REST_API_TOKEN |-> "set",
     UPSTASH_REDIS_REST_URL |-> "set", UPSTASH_REDIS_REST_TOKEN |-> "set"]

\* a ?? b
Coalesce(a, b) == IF a = "unset" THEN b ELSE a

\* getRedis: url and token are read with ??, and both have to be truthy
GetRedisOk(e) ==
    /\ Coalesce(e.KV_REST_API_URL, e.UPSTASH_REDIS_REST_URL) = "set"
    /\ Coalesce(e.KV_REST_API_TOKEN, e.UPSTASH_REDIS_REST_TOKEN) = "set"

\* createVercelStore
createVercelStore(e) ==
    IF e.KV_REST_API_URL = "set" \/ e.UPSTASH_REDIS_REST_URL = "set"
    THEN "redis" ELSE "memory"

RedisLoad(r, id) ==
    IF validateCheckpointId(id) # "ok" THEN Throw(validateCheckpointId(id), 0)
    ELSE IF ~GetRedisOk(env) THEN Throw("missing_redis_env", 0)
    ELSE IF id \notin DOMAIN r THEN Ok(JsonNull)
    ELSE Ok(Parse(r[id]))

(***************************************************************************)
(* The store of the running process                                        *)
(***************************************************************************)
EmptyFn == [x \in {} |-> x]

\* what the store holds
Contents == [memory |-> memoryStore, dir |-> dir, redis |-> redis]

\* the ids of the live checkpoints
LiveIds ==
    CASE backend = "memory" -> MapKeys(memoryStore)
      [] backend = "file"   -> DOMAIN dir
      [] backend = "redis"  -> DOMAIN redis

\* store.load(id)
Load(id) ==
    CASE backend = "memory" -> MemoryLoad(memoryStore, id)
      [] backend = "file"   -> FileLoad(dir, id)
      [] backend = "redis"  -> RedisLoad(redis, id)

\* the refs of DiagramView before the first render: animatedVP.current and
\* targetVP.current null, animFrameRef.current 0, no frame requested, svgRef
\* attached. pending holds the ids of the frames requested and neither run
\* nor cancelled, renders the viewports of the calls of renderSvgPreview
\* that wait in an await, cleaned tells that the cleanup of the unmount has
\* run; ticks counts the runs of animateViewBox since the last render
NoAnim ==
    [animatedVP |-> NoRect, targetVP |-> NoRect, pending |-> {},
     animFrameRef |-> 0, svgRef |-> TRUE, cleaned |-> FALSE,
     renders |-> << >>, ticks |-> 0, start |-> NoRect]

\* no input is being streamed: final is the text of the call, pos how much
\* of it has been delivered; latestRef.current is empty and
\* restoredRef.current null; played is history, the calls of playStroke
NoStream ==
    [phase |-> "idle", final |-> << >>, pos |-> 0, latestRef |-> << >>,
     restoredRef |-> JsonNull, played |-> << >>,
     seen |-> 0, prevRestoreId |-> NoRef]

\* the widget before any input: nothing drawn
NoView ==
    [op |-> "init", text |-> << >>, input |-> << >>, drawElements |-> << >>,
     deleteIds |-> {}, restoreId |-> NoRef, hasBase |-> FALSE,
     saved |-> JsonNull, base |-> << >>,
     viewport |-> NoRect, rendered |-> FALSE, scene |-> << >>]

Idle == [pc |-> "idle"]
InFlight == {p \in Procs : calls[p].pc # "idle"}

(***************************************************************************)
(* store.save and store.load, run without another call in between          *)
(***************************************************************************)
StoreResult(memory, d, r, t, outcome) ==
    [store |-> [memory |-> memory, dir |-> d, redis |-> r], now |-> t,
     outcome |-> outcome]

\* FileCheckpointStore.save after the checks: writeFile at a clock value t
\* that is the last one or a later one, then pruneOldCheckpoints
FileSaveResults(id, data) ==
    UNION { { StoreResult(memoryStore, d, redis, t, Ok(JsonNull)) :
                d \in PruneResults(WriteFile(dir, id, Stringify(data), t)) } :
            t \in {now, now + 1} }

\* store.save(id, data): the stores it can leave, with what it returns or
\* throws
SaveResults(id, data) ==
    IF SaveChecks(id, data).status = "throw"
    THEN {StoreResult(memoryStore, dir, redis, now, SaveChecks(id, data))}
    ELSE CASE backend = "memory" ->
                {StoreResult(MemorySave(memoryStore, id, data), dir, redis,
                             now, Ok(JsonNull))}
           [] backend = "redis" ->
                IF ~GetRedisOk(env)
                THEN {StoreResult(memoryStore, dir, redis, now,
                                  Throw("missing_redis_env", 0))}
                ELSE {StoreResult(memoryStore, dir,
                                  RedisSet(redis, id, Stringify(data)), now,
                                  Ok(JsonNull))}
           [] backend = "file" -> FileSaveResults(id, data)

IdsOf(store) ==
    CASE backend = "memory" -> MapKeys(store.memory)
      [] backend = "file"   -> DOMAIN store.dir
      [] backend = "redis"  -> DOMAIN store.redis

\* store.save(id, data) is called and returns or throws
SaveCall(id, data) ==
    /\ ops < MaxOps
    /\ ops' = ops + 1
    /\ \E r \in SaveResults(id, data) :
          /\ memoryStore' = r.store.memory
          /\ dir' = r.store.dir
          /\ redis' = r.store.redis
          /\ now' = r.now
          /\ writeLog' = IF r.outcome.status = "ok"
                         THEN Append(writeLog, id) ELSE writeLog
          /\ last' = [op |-> "save", id |-> id, data |-> data,
                      outcome |-> r.outcome, before |-> Contents,
                      evicted |-> IF r.outcome.status = "ok"
                                  THEN (LiveIds \cup {id}) \ IdsOf(r.store)
                                  ELSE {}]
    /\ UNCHANGED <<backend, env, calls, issued>>
    /\ UNCHANGED clientVars

\* store.load(id) is called and returns or throws
LoadCall(id) ==
    /\ last' = [op |-> "load", id |-> id, outcome |-> Load(id),
                before |-> Contents, evicted |-> {}]
    /\ UNCHANGED <<backend, env, memoryStore, dir, redis, now, calls, ops,
                   writeLog, issued>>
    /\ UNCHANGED clientVars

Init ==
    /\ backend \in Backends
    /\ env = FullEnv
    /\ memoryStore = << >>
    /\ dir = EmptyFn
    /\ redis = EmptyFn
    /\ now = 0
    /\ calls = [p \in Procs |-> Idle]
    /\ ops = 0
    /\ writeLog = << >>
    /\ issued = {}
    /\ localStorage = EmptyFn
    /\ elementsRef = << >>
    /\ svgViewportRef = NoRect
    /\ view = NoView
    /\ anim = NoAnim
    /\ stream = NoStream
    /\ last = [op |-> "init", evicted |-> {}]

Next ==
    \/ \E in \in SaveInputs : SaveCall(in[1], in[2])
    \/ \E id \in LoadInputs : LoadCall(id)

Spec == Init /\ [][Next]_vars

(***************************************************************************)
(* Saves of the file store that overlap.  save awaits writeFile, readdir,  *)
(* the stats and the unlinks, and another save runs in between.            *)
(***************************************************************************)
\* the text of a file that open has truncated: JSON.parse throws on it
EmptyText == [json |-> [kind |-> "invalid"], length |-> 0]

\* the text of a file after serialized was written at position 0 of it: what
\* the file held beyond the length of serialized stays, and the text is then
\* no JSON text
WrittenOver(content, serialized) ==
    IF content.length > serialized.length
    THEN [json |-> [kind |-> "invalid"], length |-> content.length]
    ELSE serialized

\* FileCheckpointStore.save up to the open of writeFile (flag 'w'): the file
\* is created or truncated.  with is history: the data of the save to the
\* same id that is under way, if any.
RaceOpen(p, id, data) ==
    /\ calls[p].pc = "idle"
    /\ ops < MaxOps
    /\ ops' = ops + 1
    /\ SaveChecks(id, data).status = "ok"
    /\ \E t \in {now, now + 1} :
          /\ now' = t
          /\ dir' = WriteFile(dir, id, EmptyText, t)
    /\ calls' =
          [q \in Procs |->
              IF q = p
              THEN [pc |-> "write", id |-> id, data |-> data,
                    detached |-> FALSE, wroteLast |-> FALSE,
                    with |-> {calls[r].data :
                                r \in {r \in InFlight : calls[r].id = id}},
                    listing |-> {}, stats |-> EmptyFn]
              ELSE IF calls[q].pc # "idle" /\ calls[q].id = id
                   THEN [calls[q] EXCEPT !.with = @ \cup {data}]
                   ELSE calls[q]]
    /\ last' = [op |-> "open", id |-> id, evicted |-> {}]
    /\ UNCHANGED <<backend, env, memoryStore, redis, issued, writeLog>>
    /\ UNCHANGED clientVars

\* writeFile writes the text through its own file handle, from position 0.
\* A file that a pruning has unlinked since the open is written to without
\* being in the directory.
RaceWrite(p) ==
    /\ calls[p].pc = "write"
    /\ IF calls[p].detached
       THEN UNCHANGED <<dir, now>>
       ELSE \E t \in {now, now + 1} :
              /\ now' = t
              /\ dir' = WriteFile(dir, calls[p].id,
                                  WrittenOver(dir[calls[p].id].content,
                                              Stringify(calls[p].data)), t)
    /\ writeLog' = Append(writeLog, calls[p].id)
    /\ calls' =
          [q \in Procs |->
              IF q = p
              THEN [calls[p] EXCEPT !.pc = "readdir", !.wroteLast = TRUE]
              ELSE IF calls[q].pc # "idle" /\ calls[q].id = calls[p].id
                   THEN [calls[q] EXCEPT !.wroteLast = FALSE]
                   ELSE calls[q]]
    /\ last' = [op |-> "write", id |-> calls[p].id, evicted |-> {}]
    /\ UNCHANGED <<backend, env, memoryStore, redis, ops, issued>>
    /\ UNCHANGED clientVars

\* the save of p returns, having unlinked the files evicted: a save that
\* has one of them open goes on without it
SaveReturns(p, evicted) ==
    /\ calls' =
          [q \in Procs |->
              IF q = p THEN Idle
              ELSE IF calls[q].pc = "write" /\ calls[q].id \in evicted
                   THEN [calls[q] EXCEPT !.detached = TRUE]
                   ELSE calls[q]]
    /\ last' = [op |-> "save", id |-> calls[p].id, data |-> calls[p].data,
                with |-> calls[p].with, wroteLast |-> calls[p].wroteLast,
                outcome |-> Ok(JsonNull), evicted |-> evicted]

\* pruneOldCheckpoints: readdir, and the early return
RaceReaddir(p) ==
    /\ calls[p].pc = "readdir"
    /\ IF Cardinality(DOMAIN dir) <= MAX_FILE_CHECKPOINTS
       THEN SaveReturns(p, {})
       ELSE /\ calls' = [calls EXCEPT ![p].pc = "stat",
                                      ![p].listing = DOMAIN dir]
            /\ last' = [op |-> "readdir", evicted |-> {}]
    /\ UNCHANGED <<backend, env, memoryStore, dir, redis, now, ops, writeLog, issued>>
    /\ UNCHANGED clientVars

\* pruneOldCheckpoints: the stats; a stat of a file that is gone throws, and
\* the catch ends the pruning
RaceStat(p) ==
    /\ calls[p].pc = "stat"
    /\ IF calls[p].listing \subseteq DOMAIN dir
       THEN /\ calls' = [calls EXCEPT
                           ![p].pc = "unlink",
                           ![p].stats = StatAll(dir, calls[p].listing)]
            /\ last' = [op |-> "stat", evicted |-> {}]
       ELSE SaveReturns(p, {})
    /\ UNCHANGED <<backend, env, memoryStore, dir, redis, now, ops, writeLog, issued>>
    /\ UNCHANGED clientVars

\* pruneOldCheckpoints: the sort, the slice and the unlinks
RaceUnlink(p) ==
    /\ calls[p].pc = "unlink"
    /\ \E R \in ToRemoveChoices(calls[p].stats) :
          /\ dir' = UnlinkAll(dir, R)
          /\ SaveReturns(p, R \cap DOMAIN dir)
    /\ UNCHANGED <<backend, env, memoryStore, redis, now, ops, writeLog, issued>>
    /\ UNCHANGED clientVars

\* the Vercel deployment: the store is the one createVercelStore selects for
\* the environment of the process
InitVercel ==
    /\ env \in Envs
    /\ backend = createVercelStore(env)
    /\ memoryStore = << >>
    /\ dir = EmptyFn
    /\ redis = EmptyFn
    /\ now = 0
    /\ calls = [p \in Procs |-> Idle]
    /\ ops = 0
    /\ writeLog = << >>
    /\ issued = {}
    /\ localStorage = EmptyFn
    /\ elementsRef = << >>
    /\ svgViewportRef = NoRect
    /\ view = NoView
    /\ anim = NoAnim
    /\ stream = NoStream
    /\ last = [op |-> "init", evicted |-> {}]

VercelSaves == {ShortestId, LongestValidId} \X {SmallData1}

NextVercel ==
    \/ \E in \in VercelSaves : SaveCall(in[1], in[2])
    \/ \E id \in {ShortestId} : LoadCall(id)

SpecVercel == InitVercel /\ [][NextVercel]_vars

InitRace == Init /\ backend = "file"

NextRace ==
    \/ \E p \in Procs : \E in \in RaceInputs : RaceOpen(p, in[1], in[2])
    \/ \E p \in Procs : RaceWrite(p)
    \/ \E p \in Procs : RaceReaddir(p)
    \/ \E p \in Procs : RaceStat(p)
    \/ \E p \in Procs : RaceUnlink(p)

SpecRace == InitRace /\ [][NextRace]_vars

(***************************************************************************)
(* Saves of the file store whose file system calls can fail                *)
(***************************************************************************)
\* what save returns when pruneOldCheckpoints met the fault: the try of
\* pruneOldCheckpoints catches everything
PruneFailureCaught(fault) == Ok(JsonNull)

\* pruneOldCheckpoints where readdir, a stat or some of the unlinks may fail:
\* the directories it can leave, each with the fault met.  readdir or a stat
\* that fails ends the pruning; an unlink that fails leaves its file.
PruneFaultResults(d) ==
    IF Cardinality(DOMAIN d) <= MAX_FILE_CHECKPOINTS
    THEN {[dir |-> d, fault |-> "none"], [dir |-> d, fault |-> "readdir"]}
    ELSE {[dir |-> d, fault |-> "readdir"], [dir |-> d, fault |-> "stat"]}
         \cup
         UNION { { [dir |-> UnlinkAll(d, R \ F),
                    fault |-> IF F = {} THEN "none" ELSE "unlink"] :
                     F \in SUBSET R } :
                 R \in ToRemoveChoices(StatAll(d, DOMAIN d)) }

\* FileCheckpointStore.save of valid arguments on a file system that can
\* fail: a writeFile that fails is thrown by save
SaveFaulty(id, data) ==
    /\ ops < MaxOps
    /\ ops' = ops + 1
    /\ SaveChecks(id, data).status = "ok"
    /\ \/ /\ last' = [op |-> "save", id |-> id, data |-> data,
                       fault |-> "write", outcome |-> Throw("writeFile", 0),
                       before |-> Contents]
          /\ UNCHANGED <<dir, now, writeLog>>
       \/ \E t \in {now, now + 1} :
             \E r \in PruneFaultResults(WriteFile(dir, id, Stringify(data),
                                                  t)) :
                /\ now' = t
                /\ dir' = r.dir
                /\ writeLog' = Append(writeLog, id)
                /\ last' = [op |-> "save", id |-> id, data |-> data,
                            fault |-> r.fault,
                            outcome |-> PruneFailureCaught(r.fault),
                            before |-> Contents]
    /\ UNCHANGED <<backend, env, memoryStore, redis, calls, issued>>
    /\ UNCHANGED clientVars

PruneInputs == (ValidIds \cup {LongestValidId}) \X {SmallData1}

NextPrune ==
    \/ \E in \in PruneInputs : SaveFaulty(in[1], in[2])
    \/ \E id \in {ShortestId} : LoadCall(id)

SpecPrune == InitRace /\ [][NextPrune]_vars

(***************************************************************************)
(* Batches: what JSON.parse gives for the elements argument                *)
(***************************************************************************)
\* MaxBatch is the largest number of items in a batch the model explores
MaxBatch == 2

\* crypto.randomUUID().replace(/-/g, "").slice(0, 18): 18 hexadecimal
\* digits.  The model draws them from a pool and never draws one twice.
CheckpointIdPool == { Repeat("0", 17) \o <<c>> : c \in {"1", "2"} }
FirstPoolId == Repeat("0", 17) \o <<"1">>

Directive(type, id, ids) == Item(type, id, ids, NoRef, 40)

RectA == Drawable("rectangle", <<"a">>, NoRef, 60)
TextB == Drawable("text", <<"b">>, <<"a">>, 80)
EllipseC == Drawable("ellipse", <<"c">>, NoRef, 60)
RestoreFirst == Directive("restoreCheckpoint", FirstPoolId, NoRef)
SecondPoolId == Repeat("0", 17) \o <<"2">>
RestoreSecond == Directive("restoreCheckpoint", SecondPoolId, NoRef)
RestoreTraversal == Directive("restoreCheckpoint", <<".", ".", "/", "a">>, NoRef)
\* {"type":"restoreCheckpoint"}: a restore directive without an id
RestoreNoId == Directive("restoreCheckpoint", NoRef, NoRef)
DeleteA == Directive("delete", NoRef, <<"a">>)
CameraUpdate ==
    [Directive("cameraUpdate", NoRef, NoRef) EXCEPT !.rect = <<0, 0, 800, 600>>]

CameraStart ==
    [Directive("cameraUpdate", NoRef, NoRef) EXCEPT !.rect = <<100, 100, 400, 300>>]

ServerItems == {RectA, TextB, EllipseC, RestoreFirst, DeleteA}
\* a scene of a shape, its bound text and another shape; two shapes drawn
\* and one of them deleted in the same batch
FullScene == <<RectA, TextB, EllipseC>>
DrawThenDelete == <<RectA, EllipseC, DeleteA>>
\* every batch of at most MaxBatch items of ServerItems, the two batches
\* above, and batches with a restore directive whose id is no checkpoint id
\* and with a camera
ServerBatches ==
    UNION { [1..n -> ServerItems] : n \in 0..MaxBatch }
        \cup {FullScene, DrawThenDelete, <<RestoreTraversal, RectA>>,
              <<CameraUpdate, RectA>>, <<RestoreFirst, CameraUpdate>>,
              <<RestoreNoId, RectA>>}

(***************************************************************************)
(* Texts of the elements argument, and JSON.parse                          *)
(*                                                                         *)
(* A text is a sequence of tokens.  The text of a complete object is one   *)
(* token, the item it denotes; the other tokens are the characters "[",    *)
(* "]", "," and " ", the literal null, a character that starts no JSON     *)
(* value, and the text of an object that was cut short.  bytes is the      *)
(* number of code units of the token.                                      *)
(***************************************************************************)
Token(tok, bytes) == [tok |-> tok, bytes |-> bytes]
LBracket == Token("[", 1)
RBracket == Token("]", 1)
Comma == Token(",", 1)
Space == Token(" ", 1)
NullLit == Token("null", 4)
Junk == Token("x", 1)
\* {"type":"rectangle","id":"b","x   -- an object cut short, no "}" in it
CutPlain == Token("{cut", 33)
\* {"type":"rectangle","label":{"text":"b"},"x   -- cut short after a
\* complete inner object, so its last "}" closes the inner object
CutNested == Token("{cut}cut", 43)
\* CutNested up to and including its last "}"
CutNestedToBrace == Token("{cut}", 41)

\* the token is the text of a complete object
IsObjectText(t) == "id" \in DOMAIN t
\* the token has the character "}" in it
HasBrace(t) == IsObjectText(t) \/ t \in {CutNested, CutNestedToBrace}

\* str.length
TextLength(text) == SumBytes(text)

\* the text with its white space taken out
Unspaced(text) == SelectSeq(text, LAMBDA t : t # Space)

\* the token is the text of a value: an object or null
IsValueText(t) == IsObjectText(t) \/ t = NullLit
ValueOf(t) == IF t = NullLit THEN JsonNull ELSE t

\* the tokens between the brackets are values separated by commas
IsValueList(s) ==
    \/ s = << >>
    \/ /\ Len(s) % 2 = 1
       /\ \A i \in 1..Len(s) :
             IF i % 2 = 1 THEN IsValueText(s[i]) ELSE s[i] = Comma

\* JSON.parse(text): the value, or the SyntaxError.  White space between
\* tokens is insignificant; the values are null, objects, and arrays of
\* them.
JsonParse(text) ==
    LET s == Unspaced(text)
        inner == SubSeq(s, 2, Len(s) - 1)
    IN  IF Len(s) = 1 /\ IsValueText(s[1])
        THEN [ok |-> TRUE, isArray |-> FALSE, items |-> << >>,
              value |-> ValueOf(s[1])]
        ELSE IF /\ Len(s) >= 2
                /\ s[1] = LBracket
                /\ s[Len(s)] = RBracket
                /\ IsValueList(inner)
        THEN [ok |-> TRUE, isArray |-> TRUE,
              items |-> [i \in 1..((Len(inner) + 1) \div 2) |->
                            ValueOf(inner[2 * i - 1])],
              value |-> JsonNull]
        ELSE [ok |-> FALSE, isArray |-> FALSE, items |-> << >>,
              value |-> JsonNull]

\* the items separated by commas
RECURSIVE CommaSeparated(_)
CommaSeparated(items) ==
    IF Len(items) <= 1 THEN items
    ELSE <<Head(items), Comma>> \o CommaSeparated(Tail(items))

\* the text of a JSON array of items, as JSON.stringify gives it
ArrayText(items) == <<LBracket>> \o CommaSeparated(items) \o <<RBracket>>

\* an entry of a parsed array is null
HasNull(parsed) == \E i \in 1..Len(parsed) : parsed[i] = JsonNull

(***************************************************************************)
(* String(el.ids ?? el.id).split(",") and trim                             *)
(***************************************************************************)
\* String(v): undefined becomes the text "undefined"
StringOf(v) ==
    IF v = NoRef THEN <<"u", "n", "d", "e", "f", "i", "n", "e", "d">> ELSE v

\* el.ids ?? el.id
IdsOrId(el) == IF el.ids # NoRef THEN el.ids ELSE el.id

\* s.split(","): the pieces between the commas, as a sequence
RECURSIVE SplitAcc(_, _, _)
SplitAcc(s, piece, acc) ==
    IF s = << >> THEN Append(acc, piece)
    ELSE IF Head(s) = "," THEN SplitAcc(Tail(s), << >>, Append(acc, piece))
    ELSE SplitAcc(Tail(s), Append(piece, Head(s)), acc)
SplitComma(s) == SplitAcc(s, << >>, << >>)

\* s.trim(), for the white space " "
RECURSIVE TrimLeft(_)
TrimLeft(s) ==
    IF s # << >> /\ Head(s) = " " THEN TrimLeft(Tail(s)) ELSE s
RECURSIVE TrimRight(_)
TrimRight(s) ==
    IF s # << >> /\ s[Len(s)] = " "
    THEN TrimRight(SubSeq(s, 1, Len(s) - 1)) ELSE s
Trim(s) == TrimRight(TrimLeft(s))

\* the ids one delete pseudo-element adds to deleteIds
DeleteIdsOfItem(el) ==
    LET pieces == SplitComma(StringOf(IdsOrId(el)))
    IN  { Trim(pieces[i]) : i \in 1..Len(pieces) }

\* deleteIds after the loop over parsed
DeleteIds(parsed) ==
    UNION { DeleteIdsOfItem(parsed[i]) :
              i \in {j \in 1..Len(parsed) : parsed[j].type = "delete"} }

(***************************************************************************)
(* The create_view handler                                                 *)
(***************************************************************************)
NoItem == Directive("<none>", NoRef, NoRef)

\* parsed.find(el => el.type === "restoreCheckpoint")
FindRestore(parsed) ==
    LET hits == {i \in 1..Len(parsed) : parsed[i].type = "restoreCheckpoint"}
    IN  IF hits = {} THEN NoItem
        ELSE parsed[CHOOSE i \in hits : \A j \in hits : i <= j]

\* restoreEl?.id is truthy: a non-empty string
Truthy(v) == v # NoRef /\ v # << >>

\* base.elements.filter(...) keeping the containerId test out
BaseFilteredByIdOnly(elements, deleteIds) ==
    SelectSeq(elements, LAMBDA el : el.id \notin deleteIds)

\* base.elements.filter(el => !deleteIds.has(el.id) &&
\*                            !deleteIds.has(el.containerId))
BaseFiltered(elements, deleteIds) ==
    SelectSeq(elements, LAMBDA el :
        el.id \notin deleteIds /\ el.containerId \notin deleteIds)

\* parsed.filter(el => el.type !== "restoreCheckpoint" && el.type !== "delete")
NewEls(parsed) ==
    SelectSeq(parsed, LAMBDA el :
        el.type # "restoreCheckpoint" /\ el.type # "delete")

\* resolvedElements with the new elements put before the base
ResolvedWithBaseNewFirst(base, parsed) ==
    NewEls(parsed) \o BaseFiltered(base.elements, DeleteIds(parsed))

\* resolvedElements when a checkpoint is restored
ResolvedWithBase(base, parsed) ==
    BaseFiltered(base.elements, DeleteIds(parsed)) \o NewEls(parsed)

\* parsed.filter(...) reversing the order
ResolvedWithoutBaseReversed(parsed) ==
    LET r == SelectSeq(parsed, LAMBDA el : el.type # "delete")
    IN  [i \in 1..Len(r) |-> r[Len(r) + 1 - i]]

\* resolvedElements when nothing is restored:
\* parsed.filter(el => el.type !== "delete")
ResolvedWithoutBase(parsed) == SelectSeq(parsed, LAMBDA el : el.type # "delete")

\* what a handler gives back: a result, or an error it throws
\* the size test of the two handlers left out
InputTooLongNever(length) == FALSE

\* elements.length > MAX_INPUT_BYTES, data.length > MAX_INPUT_BYTES
InputTooLong(length) == length > MAX_INPUT_BYTES

ToolOk(checkpointId) ==
    [status |-> "ok", text |-> "Diagram displayed!", checkpointId |-> checkpointId]
ToolError(text) == [status |-> "error", text |-> text, checkpointId |-> NoRef]
ToolThrow(text) == [status |-> "throw", text |-> text, checkpointId |-> NoRef]
\* the error result of the size test: its text names MAX_INPUT_BYTES
ToolLimitError ==
    [status |-> "error", text |-> "exceeds_input_limit",
     checkpointId |-> NoRef, limit |-> MAX_INPUT_BYTES]

\* the handler returns or throws before it has an array of objects
CreateViewRejects(outcome) ==
    /\ last' = [op |-> "create_view", input |-> << >>, restoreId |-> NoRef,
                base |-> << >>, resolved |-> << >>, outcome |-> outcome,
                before |-> Contents, issuedBefore |-> issued, saves |-> 0]
    /\ UNCHANGED <<memoryStore, dir, redis, now, writeLog, issued>>

\* the handler returns or throws without a store.save
CreateViewFails(parsed, outcome) ==
    /\ last' = [op |-> "create_view", input |-> parsed,
                restoreId |-> FindRestore(parsed).id, base |-> << >>,
                resolved |-> << >>, outcome |-> outcome, before |-> Contents,
                issuedBefore |-> issued, saves |-> 0]
    /\ UNCHANGED <<memoryStore, dir, redis, now, writeLog, issued>>

\* store.load threw: the handler does not catch it
CreateViewFailsAsLoadDid(parsed) ==
    CreateViewFails(parsed, ToolThrow(Load(FindRestore(parsed).id).error))

\* if (!base) return { ..., isError: true }
CreateViewMissing(parsed) == CreateViewFails(parsed, ToolError("not found"))

\* the ids crypto.randomUUID() can give now
FreshIds == CheckpointIdPool \ issued

\* const checkpointId = ...; await store.save(checkpointId, {elements:
\* resolvedElements}); return {..., structuredContent: {checkpointId}}
CreateViewSaves(parsed, base, resolved) ==
    \E id \in FreshIds :
      \E r \in SaveResults(id, ElementsObject(resolved)) :
        /\ memoryStore' = r.store.memory
        /\ dir' = r.store.dir
        /\ redis' = r.store.redis
        /\ now' = r.now
        /\ writeLog' = writeLog
        /\ issued' = issued \cup {id}
        /\ last' = [op |-> "create_view", input |-> parsed,
                    restoreId |-> FindRestore(parsed).id, base |-> base,
                    resolved |-> resolved,
                    outcome |-> IF r.outcome.status = "ok" THEN ToolOk(id)
                                ELSE ToolThrow(r.outcome.error),
                    before |-> Contents, issuedBefore |-> issued,
                    saves |-> IF r.outcome.status = "ok" THEN 1 ELSE 0]

\* the create_view handler from restoreEl on, for an array of objects
CreateViewResolve(parsed) ==
    LET restoreEl == FindRestore(parsed)
    IN  IF Truthy(restoreEl.id)
        THEN IF Load(restoreEl.id).status = "throw"
             THEN CreateViewFailsAsLoadDid(parsed)
             ELSE IF Load(restoreEl.id).value = JsonNull
                  THEN CreateViewMissing(parsed)
                  ELSE IF Load(restoreEl.id).value.kind = "array"
                  THEN CreateViewFails(parsed, ToolThrow("type_error"))
                  ELSE CreateViewSaves(parsed,
                           Load(restoreEl.id).value.elements,
                           ResolvedWithBase(Load(restoreEl.id).value, parsed))
        ELSE CreateViewSaves(parsed, << >>, ResolvedWithoutBase(parsed))

\* the entries of parsed before its first null
RECURSIVE BeforeNull(_)
BeforeNull(parsed) ==
    IF parsed = << >> \/ Head(parsed) = JsonNull THEN << >>
    ELSE <<Head(parsed)>> \o BeforeNull(Tail(parsed))

\* the create_view handler for an array with a null entry: el.type of null
\* is a TypeError, in parsed.find when no restoreCheckpoint comes before the
\* null, else in the loops and filters that follow store.load
CreateViewOfNull(parsed) ==
    LET restoreEl == FindRestore(BeforeNull(parsed))
    IN  IF Truthy(restoreEl.id) /\ Load(restoreEl.id).status = "throw"
        THEN CreateViewRejects(ToolThrow(Load(restoreEl.id).error))
        ELSE IF Truthy(restoreEl.id) /\ Load(restoreEl.id).value = JsonNull
        THEN CreateViewRejects(ToolError("not found"))
        ELSE CreateViewRejects(ToolThrow("type_error"))

\* the create_view handler, for the text elements
CreateView(elements) ==
    /\ FreshIds # {}
    /\ IF InputTooLong(TextLength(elements))
       THEN CreateViewRejects(ToolLimitError)
       ELSE IF ~JsonParse(elements).ok
       THEN CreateViewRejects(ToolError("invalid_json"))
       ELSE IF ~JsonParse(elements).isArray
       THEN CreateViewRejects(ToolThrow("type_error"))
       ELSE IF HasNull(JsonParse(elements).items)
       THEN CreateViewOfNull(JsonParse(elements).items)
       ELSE CreateViewResolve(JsonParse(elements).items)
    /\ ops' = ops + 1
    /\ UNCHANGED <<backend, env, calls>>

\* save_checkpoint, for the text of data: the size test, then
\* store.save(id, JSON.parse(data)) inside try/catch
SaveCheckpoint(id, data) ==
    /\ ops < MaxOps
    /\ ops' = ops + 1
    /\ IF InputTooLong(Stringify(data).length)
       THEN /\ last' = [op |-> "save_checkpoint", id |-> id,
                        length |-> Stringify(data).length,
                        outcome |-> ToolLimitError,
                        before |-> Contents, saves |-> 0]
            /\ UNCHANGED <<memoryStore, dir, redis, now>>
       ELSE \E r \in SaveResults(id, Parse(Stringify(data))) :
              /\ memoryStore' = r.store.memory
              /\ dir' = r.store.dir
              /\ redis' = r.store.redis
              /\ now' = r.now
              /\ last' = [op |-> "save_checkpoint", id |-> id,
                          length |-> Stringify(data).length,
                          outcome |-> IF r.outcome.status = "ok"
                                      THEN ToolOk(NoRef)
                                      ELSE ToolError(r.outcome.error),
                          before |-> Contents, saves |-> 1]
    /\ UNCHANGED <<backend, env, calls, issued, writeLog>>
    /\ UNCHANGED clientVars

\* the arguments the widget's save_checkpoint is explored with
WidgetSaves ==
    { <<ShortestId, SmallData2>>, <<ShortestId, OversizeData>>,
      <<FirstPoolId, LegacyData>>, <<FirstPoolId, SmallData2>> }

(***************************************************************************)
(* The widget: extractViewportAndElements                                  *)
(***************************************************************************)
\* the position of the last item whose type is in types, 0 when there is none
LastOfTypes(elements, types) ==
    LET hits == {i \in 1..Len(elements) : elements[i].type \in types}
    IN  IF hits = {} THEN 0 ELSE CHOOSE i \in hits : \A j \in hits : j <= i

\* the first cameraUpdate or viewportUpdate instead of the last
ExtractViewportFirst(elements) ==
    LET hits == {i \in 1..Len(elements) :
                    elements[i].type \in {"cameraUpdate", "viewportUpdate"}}
    IN  IF hits = {} THEN NoRect
        ELSE elements[CHOOSE i \in hits : \A j \in hits : i <= j].rect

\* viewport after the loop: the last cameraUpdate or viewportUpdate, or null
ExtractViewport(elements) ==
    LET i == LastOfTypes(elements, {"cameraUpdate", "viewportUpdate"})
    IN  IF i = 0 THEN NoRect ELSE elements[i].rect

\* restoreId after the loop: the id of the last restoreCheckpoint; null and
\* undefined are both NoRef
ExtractRestoreId(elements) ==
    LET i == LastOfTypes(elements, {"restoreCheckpoint"})
    IN  IF i = 0 THEN NoRef ELSE elements[i].id

\* deleteIds after the loop
ExtractDeleteIds(elements) ==
    UNION { DeleteIdsOfItem(elements[i]) :
              i \in {j \in 1..Len(elements) : elements[j].type = "delete"} }

\* drawElements after the loop: the items of every other type
ExtractDrawElements(elements) ==
    SelectSeq(elements, LAMBDA el :
        el.type \notin {"cameraUpdate", "viewportUpdate", "restoreCheckpoint",
                        "delete"})

\* processedDraw, the deleted elements removed instead of hidden
ProcessedDrawRemoving(drawElements, deleteIds) ==
    SelectSeq(drawElements, LAMBDA el : el.id \notin deleteIds)

\* processedDraw: drawElements.map(el => deleteIds.has(el.id)
\*                                        ? {...el, opacity: 1} : el)
ProcessedDraw(drawElements, deleteIds) ==
    IF deleteIds # {}
    THEN [i \in 1..Len(drawElements) |->
            IF drawElements[i].id \in deleteIds
            THEN [drawElements[i] EXCEPT !.opacity = 1]
            ELSE drawElements[i]]
    ELSE drawElements

extractViewportAndElements(elements) ==
    [viewport |-> ExtractViewport(elements),
     drawElements |-> ProcessedDraw(ExtractDrawElements(elements),
                                    ExtractDeleteIds(elements)),
     restoreId |-> ExtractRestoreId(elements),
     deleteIds |-> ExtractDeleteIds(elements)]

(***************************************************************************)
(* The widget: localStorage and the conversion                             *)
(***************************************************************************)
\* localStorage.getItem and setItem
GetItem(storage, key) ==
    IF key \in DOMAIN storage THEN storage[key] ELSE JsonNull
SetItem(storage, key, value) ==
    [k \in (DOMAIN storage) \cup {key} |->
        IF k = key THEN value ELSE storage[k]]

\* convertToExcalidrawElements(..., {regenerateIds: false}) of elements
\* without a label: one element for each, under the same id
ConvertAll(els) == [i \in 1..Len(els) |-> [els[i] EXCEPT !.converted = TRUE]]

\* the viewport renderSvgPreview falls back to
DefaultVP == <<0, 0, 1024, 768>>

(***************************************************************************)
(* The widget: the animation of the viewport                               *)
(*                                                                         *)
(* The components of animatedVP are fractions; they are kept here as whole *)
(* numbers of 1/Scale, and a product with LERP_SPEED is rounded to the     *)
(* nearest of them.                                                        *)
(***************************************************************************)
Scale == 100000
\* LERP_SPEED = 0.03 = LerpNum / LerpDen
LerpNum == 3
LerpDen == 100

Scaled(rect) == [i \in 1..4 |-> rect[i] * Scale]

\* n / d rounded to the nearest whole number
Rounded(n, d) == (2 * n + d) \div (2 * d)

Abs(n) == IF n < 0 THEN -n ELSE n

\* a step that does not move
LerpStay(a, t) == a

\* a += (t - a) * LERP_SPEED
Lerp(a, t) == a + Rounded((t - a) * LerpNum, LerpDen)

\* Math.abs(t.x - a.x) + Math.abs(t.y - a.y) + Math.abs(t.width - a.width)
\* + Math.abs(t.height - a.height), in 1/Scale
DeltaOf(a, t) ==
    Abs(t[1] - a[1]) + Abs(t[2] - a[2]) + Abs(t[3] - a[3]) + Abs(t[4] - a[4])

\* delta > 0.5
AboveThreshold(delta) == 2 * delta > Scale

\* requestAnimationFrame: the id of the new frame, the least positive one
\* that is neither pending nor held by animFrameRef
NewFrame(pending, ref) ==
    CHOOSE f \in 1..(Cardinality(pending) + 2) :
        /\ f \notin pending \cup {ref}
        /\ \A g \in 1..(f - 1) : g \in pending \cup {ref}

\* a cancel that leaves the frame requested
cancelAnimationFrameNever(pending, ref) == pending

\* if (animFrameRef.current) cancelAnimationFrame(animFrameRef.current)
cancelAnimationFrame(pending, ref) == pending \ {ref}

\* an animated rectangle that follows every viewport at once
AnimatedSnapped(animated, viewport) == Scaled(viewport)

\* if (!animatedVP.current) animatedVP.current = { ...viewport }
AnimatedAfter(animated, viewport) ==
    IF animated = NoRect THEN Scaled(viewport) ELSE animated

\* what the end of renderSvgPreview does to the refs, for its viewport; start
\* is history: animatedVP as the render left it
AfterRender(an, viewport) ==
    LET kept == cancelAnimationFrame(an.pending, an.animFrameRef)
        f == NewFrame(kept, an.animFrameRef)
        target == IF viewport # NoRect THEN viewport ELSE DefaultVP
        animated == AnimatedAfter(an.animatedVP, target)
    IN  [an EXCEPT
           !.animatedVP = animated,
           !.targetVP = IF viewport # NoRect THEN Scaled(viewport)
                        ELSE NoRect,
           !.pending = IF viewport # NoRect THEN kept \cup {f}
                       ELSE cancelAnimationFrame(kept \cup {f}, f),
           !.animFrameRef = f,
           !.ticks = 0,
           !.start = animated]

\* delta, for the refs as they are; 0 while either is null
Delta ==
    IF anim.animatedVP = NoRect \/ anim.targetVP = NoRect THEN 0
    ELSE DeltaOf(anim.animatedVP, anim.targetVP)

\* animateViewBox, run by a frame that was requested
animateViewBox ==
    /\ \E f \in anim.pending :
          LET rest == anim.pending \ {f}
          IN  anim' =
                 IF anim.animatedVP = NoRect \/ anim.targetVP = NoRect
                 THEN [anim EXCEPT !.pending = rest]
                 ELSE LET a == [i \in 1..4 |->
                                  Lerp(anim.animatedVP[i], anim.targetVP[i])]
                          again == AboveThreshold(DeltaOf(a, anim.targetVP))
                          g == NewFrame(rest, anim.animFrameRef)
                      IN  [anim EXCEPT
                             !.animatedVP = a,
                             !.pending = IF again THEN rest \cup {g}
                                         ELSE rest,
                             !.animFrameRef = IF again THEN g ELSE @,
                             !.ticks = @ + 1]
    /\ last' = [op |-> "tick", before |-> Delta,
                moved |-> anim.animatedVP # NoRect /\ anim.targetVP # NoRect]
    /\ UNCHANGED <<backend, env, memoryStore, dir, redis, now, calls, ops,
                   writeLog, issued>>
    /\ UNCHANGED <<localStorage, elementsRef, svgViewportRef, view, stream>>

\* renderSvgPreview is called for a scene that is not empty while svgRef is
\* attached, and waits for the fonts and for exportToSvg
RenderStart(viewport) ==
    /\ ops < MaxRenders
    /\ anim.svgRef
    /\ ops' = ops + 1
    /\ anim' = [anim EXCEPT !.renders = Append(@, viewport)]
    /\ last' = [op |-> "render_start"]
    /\ UNCHANGED <<backend, env, memoryStore, dir, redis, now, calls, writeLog,
                   issued>>
    /\ UNCHANGED <<localStorage, elementsRef, svgViewportRef, view, stream>>

\* a render that goes on whatever svgRef holds
SvgRefIgnored(an) == TRUE

\* if (!svgRef.current) return, after the awaits
SvgRefAttached(an) == an.svgRef

\* a call of renderSvgPreview comes back from its awaits: it ends there when
\* the export threw or svgRef is detached, and else goes on to onViewport,
\* the refs of the animation and the frame
RenderFinish(i, exported) ==
    /\ i \in DOMAIN anim.renders
    /\ LET viewport == anim.renders[i]
           waiting == [anim EXCEPT
                         !.renders = SubSeq(@, 1, i - 1)
                                     \o SubSeq(@, i + 1, Len(@))]
       IN  IF exported /\ SvgRefAttached(anim)
           THEN /\ svgViewportRef' = IF viewport # NoRect THEN viewport
                                     ELSE DefaultVP
                /\ anim' = AfterRender(waiting, viewport)
                /\ last' = [op |-> "render",
                            target |-> IF viewport # NoRect THEN viewport
                                       ELSE DefaultVP,
                            cancelled |-> anim.animFrameRef \in anim.pending]
           ELSE /\ svgViewportRef' = svgViewportRef
                /\ anim' = waiting
                /\ last' = [op |-> "render_dropped"]
    /\ UNCHANGED <<backend, env, memoryStore, dir, redis, now, calls, ops,
                   writeLog, issued>>
    /\ UNCHANGED <<localStorage, elementsRef, view, stream>>

\* DiagramView is unmounted: React detaches svgRef when it removes the div
DetachRef ==
    /\ anim.svgRef
    /\ anim' = [anim EXCEPT !.svgRef = FALSE]
    /\ last' = [op |-> "unmount"]
    /\ UNCHANGED <<backend, env, memoryStore, dir, redis, now, calls, ops,
                   writeLog, issued>>
    /\ UNCHANGED <<localStorage, elementsRef, svgViewportRef, view, stream>>

\* the cleanup of the effect of the unmount, run after the ref is detached
UnmountCleanup ==
    /\ ~anim.svgRef
    /\ ~anim.cleaned
    /\ anim' = [anim EXCEPT
                  !.pending = cancelAnimationFrame(@, anim.animFrameRef),
                  !.cleaned = TRUE]
    /\ last' = [op |-> "cleanup"]
    /\ UNCHANGED <<backend, env, memoryStore, dir, redis, now, calls, ops,
                   writeLog, issued>>
    /\ UNCHANGED <<localStorage, elementsRef, svgViewportRef, view, stream>>

StartVP == <<100, 100, 400, 300>>
AnimViewports == {StartVP, CameraUpdate.rect, NoRect}

NextAnim ==
    \/ \E viewport \in AnimViewports : RenderStart(viewport)
    \/ \E i \in DOMAIN anim.renders :
          \E exported \in BOOLEAN : RenderFinish(i, exported)
    \/ animateViewBox
    \/ DetachRef
    \/ UnmountCleanup

InitAnim == Init /\ backend = "memory"

SpecAnim == InitAnim /\ [][NextAnim]_vars

(***************************************************************************)
(* The widget: parsePartialElements and excludeIncompleteLastItem          *)
(***************************************************************************)
\* str?.trim().startsWith("[")
StartsWithBracket(str) ==
    Unspaced(str) # << >> /\ Head(Unspaced(str)) = LBracket

\* str.lastIndexOf("}"): the position of the last token with a "}" in it,
\* 0 when there is none
LastBrace(str) ==
    LET hits == {i \in 1..Len(str) : HasBrace(str[i])}
    IN  IF hits = {} THEN 0 ELSE CHOOSE i \in hits : \A j \in hits : j <= i

\* str.substring(0, last + 1) + "]"
TruncatedAtBrace(str) ==
    LET p == LastBrace(str)
    IN  SubSeq(str, 1, p - 1)
            \o <<IF str[p] = CutNested THEN CutNestedToBrace ELSE str[p]>>
            \o <<RBracket>>

\* parsePartialElements without the second attempt
parsePartialElementsStrict(str) ==
    IF ~StartsWithBracket(str) THEN << >>
    ELSE IF JsonParse(str).ok THEN JsonParse(str).items
    ELSE << >>

\* parsePartialElements(str): each JSON.parse is inside a try, so the
\* function returns for every str
parsePartialElements(str) ==
    IF ~StartsWithBracket(str) THEN << >>
    ELSE IF JsonParse(str).ok THEN JsonParse(str).items
    ELSE IF LastBrace(str) = 0 THEN << >>
    ELSE IF JsonParse(TruncatedAtBrace(str)).ok
         THEN JsonParse(TruncatedAtBrace(str)).items
         ELSE << >>

\* excludeIncompleteLastItem keeping the item of a one-item array
excludeIncompleteLastItemOfMany(arr) ==
    IF Len(arr) <= 1 THEN arr ELSE SubSeq(arr, 1, Len(arr) - 1)

\* excludeIncompleteLastItem(arr)
excludeIncompleteLastItem(arr) ==
    IF Len(arr) = 0 THEN << >>
    ELSE IF Len(arr) <= 1 THEN << >>
    ELSE SubSeq(arr, 1, Len(arr) - 1)

(***************************************************************************)
(* The widget: a final input and the tool result                           *)
(***************************************************************************)
\* the effect of DiagramView for a final input, from the parsed array on:
\* what it extracts, the base it restores, and what renderSvgPreview draws
FinalInputOf(str, parsed) ==
    LET x == extractViewportAndElements(parsed)
        saved == GetItem(localStorage, x.restoreId)
        hasBase == Truthy(x.restoreId) /\ saved # JsonNull
        base == IF ~hasBase THEN << >>
                ELSE IF x.deleteIds # {}
                     THEN SelectSeq(ItemsOf(saved),
                                    LAMBDA el : el.id \notin x.deleteIds)
                     ELSE ItemsOf(saved)
        savedViewport == IF hasBase /\ saved.kind # "array"
                         THEN saved.viewport ELSE NoRect
        rendered == ~(Len(x.drawElements) = 0 /\ Len(base) = 0)
    IN  [op |-> "final", text |-> str, input |-> parsed,
         drawElements |-> x.drawElements,
         deleteIds |-> x.deleteIds, restoreId |-> x.restoreId,
         hasBase |-> hasBase, saved |-> saved, base |-> base,
         viewport |-> IF x.viewport # NoRect THEN x.viewport
                      ELSE savedViewport,
         rendered |-> rendered,
         scene |-> IF rendered THEN base \o ConvertAll(x.drawElements)
                   ELSE view.scene]

\* the effect of DiagramView for the final input str.  el.type of a null
\* entry is a TypeError in extractViewportAndElements: the effect ends there
\* and nothing of the widget changes.
FinalInput(str) ==
    IF HasNull(parsePartialElements(str))
    THEN [view EXCEPT !.op = "threw", !.text = str]
    ELSE FinalInputOf(str, parsePartialElements(str))

\* app.ontoolresult: the elements and the viewport go to localStorage under
\* the checkpoint id of the result
OnToolResult(storage, result, els, viewport) ==
    IF Truthy(result.checkpointId) /\ Len(els) > 0
    THEN SetItem(storage, result.checkpointId,
                 [kind |-> "object", elements |-> els, viewport |-> viewport])
    ELSE storage

\* one create_view call of the host: the widget gets the final input, the
\* server runs the handler, the widget gets the result.  The user has made
\* no edit.  renderSvgPreview is asynchronous, so the tool result may find
\* svgViewportRef as it was or as the render sets it.
ToolCall(elements) ==
    /\ CreateView(elements)
    /\ view' = FinalInput(elements)
    /\ elementsRef' =
          IF view'.op = "threw" THEN elementsRef
          ELSE view'.base \o ConvertAll(view'.drawElements)
    /\ svgViewportRef' =
          IF view'.op = "threw" \/ ~view'.rendered THEN svgViewportRef
          ELSE IF view'.viewport # NoRect THEN view'.viewport ELSE DefaultVP
    /\ anim' =
          IF view'.op = "threw" \/ ~view'.rendered THEN anim
          ELSE AfterRender(anim, view'.viewport)
    /\ stream' =
          IF view'.op = "threw" THEN [stream EXCEPT !.phase = "final"]
          ELSE [stream EXCEPT !.phase = "final",
                              !.latestRef = view'.drawElements]
    /\ \E vp \in {svgViewportRef, svgViewportRef'} :
          localStorage' = OnToolResult(localStorage, last'.outcome,
                                       elementsRef', vp)

\* texts that are no array of objects: no JSON, an object, null, arrays with
\* a null entry, and a final text whose last object is cut short
MalformedTexts ==
    { <<Junk>>, <<RectA>>, <<NullLit>>, <<LBracket, NullLit, RBracket>>,
      <<LBracket, RestoreFirst, Comma, NullLit, RBracket>>,
      <<LBracket, RectA, Comma, CutPlain>> }

\* a text one code unit longer than MAX_INPUT_BYTES, and one as long
OversizeText ==
    ArrayText(<<Drawable("rectangle", <<"a">>, NoRef, MAX_INPUT_BYTES - 1)>>)
LimitText ==
    ArrayText(<<Drawable("rectangle", <<"a">>, NoRef, MAX_INPUT_BYTES - 2)>>)

ServerTexts ==
    { ArrayText(parsed) : parsed \in ServerBatches }
        \cup MalformedTexts \cup {OversizeText}

\* as many create_view calls as the pool has ids
NextServer ==
    \E elements \in ServerTexts :
        ops < Cardinality(CheckpointIdPool) /\ ToolCall(elements)

SpecServer == Init /\ [][NextServer]_vars

\* create_view calls and the widget's save_checkpoint calls on one store
WidgetBatches == { << >>, <<RectA>>, <<RestoreFirst, EllipseC>> }
WidgetTexts ==
    { ArrayText(parsed) : parsed \in WidgetBatches }
        \cup {OversizeText, <<Space>> \o OversizeText \o <<Junk>>}

NextWidget ==
    \/ \E elements \in WidgetTexts : ops < MaxOps /\ ToolCall(elements)
    \/ \E in \in WidgetSaves : SaveCheckpoint(in[1], in[2])

\* localStorage may hold a checkpoint an earlier version of the widget wrote
\* as a bare array
LegacyStorage ==
    SetItem(EmptyFn, FirstPoolId, ArrayValue(ConvertAll(<<RectA, TextB>>)))

InitWidget ==
    /\ backend \in Backends
    /\ env = FullEnv
    /\ memoryStore = << >>
    /\ dir = EmptyFn
    /\ redis = EmptyFn
    /\ now = 0
    /\ calls = [p \in Procs |-> Idle]
    /\ ops = 0
    /\ writeLog = << >>
    /\ issued = {}
    /\ localStorage \in {EmptyFn, LegacyStorage}
    /\ elementsRef = << >>
    /\ svgViewportRef = NoRect
    /\ view = NoView
    /\ anim = NoAnim
    /\ stream = NoStream
    /\ last = [op |-> "init", evicted |-> {}]

SpecWidget == InitWidget /\ [][NextWidget]_vars

\* a partial input that reads localStorage whenever it has a restore id
ReadsStorageAlways(ref, id) == Truthy(id)

\* whether the partial input calls localStorage.getItem: streamRestoreId is
\* truthy and restoredRef.current is null or holds another id
ReadsStorage(ref, id) ==
    Truthy(id) /\ (ref = JsonNull \/ ref.id # id)

(***************************************************************************)
(* The widget: partial inputs of a call that is being streamed             *)
(***************************************************************************)
\* restoredRef.current after a partial input whose last restoreCheckpoint
\* names id: the checkpoint of localStorage is read once for each id
RestoredRefAfter(ref, storage, id) ==
    IF /\ ReadsStorage(ref, id)
       /\ GetItem(storage, id) # JsonNull
    THEN [kind |-> "restored", id |-> id,
          elements |-> ItemsOf(GetItem(storage, id)),
          viewport |-> IF GetItem(storage, id).kind = "array" THEN NoRect
                       ELSE GetItem(storage, id).viewport]
    ELSE ref

\* a loop that plays every element of drawElements again
StrokesFromStart(drawElements, prevCount, pos) ==
    [i \in 1..Len(drawElements) |->
        [pos |-> pos, index |-> i, type |-> drawElements[i].type]]

\* the calls of playStroke of a partial input: one for each of drawElements
\* from position prevCount on, with its type
Strokes(drawElements, prevCount, pos) ==
    [i \in 1..(IF Len(drawElements) > prevCount
               THEN Len(drawElements) - prevCount ELSE 0) |->
        [pos |-> pos, index |-> prevCount + i,
         type |-> drawElements[prevCount + i].type]]

\* a partial branch that records what it drew
StorageAfterPartialSaving(storage, id, els) ==
    SetItem(storage, id,
            [kind |-> "object", elements |-> els, viewport |-> NoRect])

\* the partial branch writes no checkpoint
StorageAfterPartial(storage, id, els) == storage

\* the effect of DiagramView for the partial input str: what it extracts,
\* the base it restores, the strokes it plays and whether it renders
PartialInputOf(str) ==
    LET parsed == parsePartialElements(str)
        streamRestoreId == ExtractRestoreId(parsed)
        streamDeleteIds == ExtractDeleteIds(parsed)
        safe == excludeIncompleteLastItem(parsed)
        x == extractViewportAndElements(safe)
        ref == RestoredRefAfter(stream.restoredRef, localStorage,
                                streamRestoreId)
        hasBase == Truthy(streamRestoreId) /\ ref # JsonNull
        base == IF ~hasBase THEN << >>
                ELSE IF streamDeleteIds # {}
                     THEN SelectSeq(ref.elements,
                                    LAMBDA el : el.id \notin streamDeleteIds)
                     ELSE ref.elements
        savedViewport == IF hasBase THEN ref.viewport ELSE NoRect
        draws == /\ Len(x.drawElements) > 0
                 /\ Len(x.drawElements) # Len(stream.latestRef)
        showsBase == ~draws /\ Len(base) > 0 /\ Len(stream.latestRef) = 0
    IN  [op |-> "partial", str |-> str, parsed |-> parsed, safe |-> safe,
         restoreId |-> streamRestoreId, deleteIds |-> streamDeleteIds,
         restoredRef |-> ref,
         drawElements |-> x.drawElements, base |-> base,
         viewport |-> IF x.viewport # NoRect THEN x.viewport
                      ELSE savedViewport,
         draws |-> draws, rendered |-> draws \/ showsBase,
         latestBefore |-> stream.latestRef, seenBefore |-> stream.seen,
         read |-> ReadsStorage(stream.restoredRef, streamRestoreId),
         prevRestoreId |-> stream.prevRestoreId,
         before |-> Contents,
         storageBefore |-> localStorage]

\* the text of a partial input: the first k tokens of the text of the call,
\* and the next object cut short when cut is not 0
CutTokens(cut) ==
    CASE cut = 0 -> << >>
      [] cut = 1 -> <<CutPlain>>
      [] cut = 2 -> <<CutNested>>
PartialText(final, k, cut) == SubSeq(final, 1, k) \o CutTokens(cut)

\* a call begins to stream its elements to a new view
StartStream(final) ==
    /\ stream.phase \in {"idle", "final"}
    /\ ops < Cardinality(CheckpointIdPool)
    /\ stream' = [NoStream EXCEPT !.phase = "streaming", !.final = final]
    /\ view' = NoView
    /\ anim' = NoAnim
    /\ elementsRef' = << >>
    /\ svgViewportRef' = NoRect
    /\ last' = [op |-> "start"]
    /\ UNCHANGED <<backend, env, memoryStore, dir, redis, now, calls, ops,
                   writeLog, issued, localStorage>>

\* app.ontoolinputpartial and the effect of DiagramView that follows it.
\* el.type of a null entry is a TypeError: the effect ends there.
ToolInputPartial(k, cut) ==
    /\ stream.phase = "streaming"
    /\ k \in 1..Len(stream.final)
    /\ 3 * k + cut > stream.pos
    /\ cut # 0 => (k < Len(stream.final) /\ IsObjectText(stream.final[k + 1]))
    /\ LET str == PartialText(stream.final, k, cut)
       IN  IF HasNull(parsePartialElements(str))
           THEN /\ last' = [op |-> "partial_threw", str |-> str,
                            before |-> Contents,
                            storageBefore |-> localStorage]
                /\ stream' = [stream EXCEPT !.pos = 3 * k + cut]
                /\ UNCHANGED <<localStorage, svgViewportRef, anim>>
           ELSE LET p == PartialInputOf(str)
                IN  /\ last' = p
                    /\ stream' =
                          [stream EXCEPT
                             !.pos = 3 * k + cut,
                             !.restoredRef = p.restoredRef,
                             !.prevRestoreId = IF Truthy(p.restoreId)
                                               THEN p.restoreId ELSE @,
                             !.seen = IF Len(p.drawElements) > @
                                      THEN Len(p.drawElements) ELSE @,
                             !.latestRef = IF p.draws THEN p.drawElements
                                           ELSE @,
                             !.played =
                                IF p.draws
                                THEN @ \o Strokes(p.drawElements,
                                                  Len(stream.latestRef),
                                                  3 * k + cut)
                                ELSE @]
                    /\ localStorage' =
                          StorageAfterPartial(localStorage, p.restoreId,
                                              p.drawElements)
                    /\ svgViewportRef' =
                          IF ~p.rendered THEN svgViewportRef
                          ELSE IF p.viewport # NoRect THEN p.viewport
                          ELSE DefaultVP
                    /\ anim' = IF ~p.rendered THEN anim
                               ELSE AfterRender(anim, p.viewport)
    /\ UNCHANGED <<backend, env, memoryStore, dir, redis, now, calls, ops,
                   writeLog, issued, elementsRef, view>>

\* the final input of the call that was streamed, and its result
ToolInputFinal ==
    /\ stream.phase = "streaming"
    /\ ToolCall(stream.final)

\* the calls that are streamed: a scene of two cameras, a restore with a
\* delete, and a batch of two restore directives
StreamTexts ==
    { ArrayText(<<CameraStart, RectA, CameraUpdate, TextB, EllipseC>>),
      ArrayText(<<RestoreFirst, DeleteA, EllipseC, RectA>>),
      ArrayText(<<RestoreFirst, RestoreSecond, EllipseC>>) }

NextStream ==
    \/ \E final \in StreamTexts : StartStream(final)
    \/ \E k \in 1..Len(stream.final) :
          \E cut \in 0..2 : ToolInputPartial(k, cut)
    \/ ToolInputFinal

SpecStream == InitWidget /\ [][NextStream]_vars

(***************************************************************************)
(* The stream decoder applied to texts                                     *)
(***************************************************************************)
\* MaxText is the largest number of tokens in a text the decoder is given
MaxText == 4

DecodeTokens ==
    {LBracket, RBracket, Comma, Space, NullLit, Junk, RectA, CutPlain,
     CutNested}
DecodeTexts == UNION { [1..n -> DecodeTokens] : n \in 0..MaxText }

\* parsePartialElements(str), as the final branch of the effect calls it on
\* the text that was delivered
DecodeFinal ==
    /\ last.op = "input"
    /\ last' = [op |-> "decode", isFinal |-> TRUE, str |-> last.str,
                decoded |-> parsePartialElements(last.str),
                result |-> parsePartialElements(last.str)]
    /\ UNCHANGED <<backend, env, memoryStore, dir, redis, now, calls, ops,
                   writeLog, issued>>
    /\ UNCHANGED clientVars

\* excludeIncompleteLastItem(parsePartialElements(str)), as the partial
\* branch of the effect calls it
DecodePartial ==
    /\ last.op = "input"
    /\ last' = [op |-> "decode", isFinal |-> FALSE, str |-> last.str,
                decoded |-> parsePartialElements(last.str),
                result |->
                    excludeIncompleteLastItem(parsePartialElements(last.str))]
    /\ UNCHANGED <<backend, env, memoryStore, dir, redis, now, calls, ops,
                   writeLog, issued>>
    /\ UNCHANGED clientVars

\* the text delivered as toolInput.elements is drawn first
InitDecode ==
    /\ backend = "memory"
    /\ env = FullEnv
    /\ memoryStore = << >>
    /\ dir = EmptyFn
    /\ redis = EmptyFn
    /\ now = 0
    /\ calls = [p \in Procs |-> Idle]
    /\ ops = 0
    /\ writeLog = << >>
    /\ issued = {}
    /\ localStorage = EmptyFn
    /\ elementsRef = << >>
    /\ svgViewportRef = NoRect
    /\ view = NoView
    /\ anim = NoAnim
    /\ stream = NoStream
    /\ \E str \in DecodeTexts : last = [op |-> "input", str |-> str]

NextDecode ==
    \/ DecodeFinal
    \/ DecodePartial

SpecDecode == InitDecode /\ [][NextDecode]_vars

(***************************************************************************)
(* Properties of the checkpoint stores                                     *)
(***************************************************************************)
\* an id as the contract describes it: 1 to 64 letters, digits, - and _
WellFormedId(id) ==
    /\ Len(id) \in 1..64
    /\ \A i \in 1..Len(id) :
          id[i] \in LowerCase \cup UpperCase \cup Digits \cup {"-", "_"}

LastIsCall == last.op \in {"save", "load"}

\* the position of the most recent write of id in the history of writes
LastWrite(id) ==
    CHOOSE i \in 1..Len(writeLog) :
        /\ writeLog[i] = id
        /\ \A j \in (i + 1)..Len(writeLog) : writeLog[j] # id

\* C1: in every backend, a save or a load whose id is empty, has a character
\* outside letters, digits, hyphen and underscore, or is longer than 64
\* characters throws the id error, and the store holds after the call what it
\* held before it.
C1_InvalidIdRejected ==
    (LastIsCall /\ ~WellFormedId(last.id)) =>
        /\ last.outcome.status = "throw"
        /\ last.outcome.error \in {"invalid_id_charset", "invalid_id_length"}
        /\ last.before = Contents

\* C1 happens: a save under an id of 65 characters was refused by a store
\* that holds checkpoints, and so was a load
C1_Witness ==
    /\ LastIsCall
    /\ Len(last.id) = MAX_ID_LENGTH + 1
    /\ last.outcome.status = "throw"
    /\ LiveIds # {}

C3_AtMostCapLive == Cardinality(LiveIds) <= MAX_FILE_CHECKPOINTS

\* C3, for overlapping saves of the file store (SpecRace): when no save is
\* in flight the directory holds at most MAX_FILE_CHECKPOINTS files.
C3_RaceAtMostCapLive ==
    (\A p \in Procs : calls[p].pc = "idle") =>
        Cardinality(DOMAIN dir) <= MAX_FILE_CHECKPOINTS

\* C4, for the memory store: an entry a save evicts was last written before
\* every entry that stays live.
C4_EvictsOldestWrite ==
    (backend = "memory" /\ last.op = "save") =>
        \A e \in last.evicted : \A k \in LiveIds : LastWrite(e) < LastWrite(k)

\* pairwise distinct ids
Distinct(log) == \A i, j \in 1..Len(log) : i # j => log[i] # log[j]

\* C5, for the stores that have a cap: after cap+1 saves under pairwise
\* distinct ids into the empty store, one after the other, exactly the last
\* cap ids are loadable and the load of the first id returns null.
C5_CapPlusOneSaves ==
    (/\ backend \in {"memory", "file"}
     /\ Len(writeLog) = MAX_FILE_CHECKPOINTS + 1
     /\ Distinct(writeLog)) =>
        /\ Load(writeLog[1]).value = JsonNull
        /\ \A i \in 2..Len(writeLog) : Load(writeLog[i]).value # JsonNull
        /\ LiveIds = {writeLog[i] : i \in 2..Len(writeLog)}

(***************************************************************************)
(* Properties of create_view and of the widget's final input               *)
(***************************************************************************)
\* the ids the restore directives of a batch name
RestoreIdsOf(batch) ==
    { batch[i].id :
        i \in {j \in 1..Len(batch) : batch[j].type = "restoreCheckpoint"} }

\* the elements a store holds under an id
SavedElements(store, id) ==
    CASE backend = "memory" -> MapGet(store.memory, id).json.elements
      [] backend = "file"   -> store.dir[id].content.json.elements
      [] backend = "redis"  -> store.redis[id].json.elements

IsDrawable(el) ==
    el.type \notin {"restoreCheckpoint", "delete", "cameraUpdate",
                    "viewportUpdate"}
DrawableOnly(batch) == \A i \in 1..Len(batch) : IsDrawable(batch[i])
DistinctIds(batch) ==
    \A i, j \in 1..Len(batch) : i # j => batch[i].id # batch[j].id

\* the ids of the elements of a scene, in order
IdSeq(els) == [i \in 1..Len(els) |-> els[i].id]

\* C6: a create_view call whose batch has restore directives, each naming an
\* id under which the store holds nothing, returns the error result that
\* says the checkpoint expired or never existed, makes no store.save call,
\* leaves the store as it was and returns no checkpointId.
C6_MissingRestoreReported ==
    (/\ last.op = "create_view"
     /\ RestoreIdsOf(last.input) # {}
     /\ \A id \in RestoreIdsOf(last.input) :
           id # NoRef /\ id # << >> /\ id \notin IdsOf(last.before)) =>
        /\ last.outcome.status = "error"
        /\ last.outcome.text = "not found"
        /\ last.outcome.checkpointId = NoRef
        /\ last.saves = 0
        /\ Contents = last.before

\* C7: a create_view call that returns no error has made one store.save
\* call, under an id no create_view call generated before; the result
\* carries that id, no other id is new in the store, and a load of that id
\* right after the call gives the resolved scene of the batch.
C7_SavesOneFreshCheckpoint ==
    (last.op = "create_view" /\ last.outcome.status = "ok") =>
        /\ last.saves = 1
        /\ last.outcome.checkpointId \notin last.issuedBefore
        /\ IdsOf(Contents) \ IdsOf(last.before) \subseteq
              {last.outcome.checkpointId}
        /\ Load(last.outcome.checkpointId).status = "ok"
        /\ Load(last.outcome.checkpointId).value =
              ElementsObject(last.resolved)

RestoreAndDelete(d) ==
    /\ last.op = "create_view"
    /\ Cardinality({i \in 1..Len(last.input) :
                       last.input[i].type = "restoreCheckpoint"}) = 1
    /\ \A i \in 1..Len(last.input) :
          last.input[i].type \in {"restoreCheckpoint", "delete"}
    /\ \A i \in 1..Len(last.input) :
          last.input[i].type = "delete" => last.input[i].ids = d
    /\ \E i \in 1..Len(last.input) : last.input[i].type = "delete"
    /\ RestoreIdsOf(last.input) \subseteq IdsOf(last.before)

\* the one id of RestoreIdsOf
RestoredId == CHOOSE id \in RestoreIdsOf(last.input) : TRUE

\* C9: a finalized batch of a restore directive for a checkpoint saved with
\* elements E and a delete directive for an id d of E resolves to E without
\* the elements whose id is d and without the elements whose containerId is
\* d, the others in their order in E.
C9_RestoreThenDelete ==
    \A d \in {RectA.id, TextB.id, EllipseC.id} :
        (/\ RestoreAndDelete(d)
         /\ \E i \in 1..Len(SavedElements(last.before, RestoredId)) :
               SavedElements(last.before, RestoredId)[i].id = d) =>
            /\ last.outcome.status = "ok"
            /\ last.resolved =
                  SelectSeq(SavedElements(last.before, RestoredId),
                            LAMBDA el : el.id # d /\ el.containerId # d)

\* C9 happens: the checkpoint held a shape, its bound text and another shape;
\* the shape was deleted and only the other shape is left
C9_Witness ==
    /\ RestoreAndDelete(RectA.id)
    /\ SavedElements(last.before, RestoredId) = FullScene
    /\ last.resolved = <<EllipseC>>

\* C10: in the drawable array the widget extracts from a batch, there is one
\* entry for each drawable of the batch, in the order of the batch; the entry
\* of a drawable whose id is in the batch's delete set is the drawable with
\* opacity 1, every other entry is the drawable unchanged.
C10_DeletedDrawablesAreHidden ==
    view.op = "final" =>
        LET drawn == SelectSeq(view.input, IsDrawable)
        IN  /\ Len(view.drawElements) = Len(drawn)
            /\ \A i \in 1..Len(drawn) :
                  view.drawElements[i] =
                      IF drawn[i].id \in view.deleteIds
                      THEN [drawn[i] EXCEPT !.opacity = 1]
                      ELSE drawn[i]
            /\ view.deleteIds =
                  { view.input[i].ids :
                      i \in {j \in 1..Len(view.input) :
                                view.input[j].type = "delete"} }

\* C10 happens: two shapes were drawn and the first was deleted in the same
\* batch; it is still the first entry, with opacity 1
C10_Witness ==
    /\ view.op = "final"
    /\ view.input = DrawThenDelete
    /\ Len(view.drawElements) = 2
    /\ view.drawElements[1].id = RectA.id
    /\ view.drawElements[1].opacity = 1
    /\ view.drawElements[2] = EllipseC

\* the drawables of a sequence of items
DrawablesOf(els) == SelectSeq(els, IsDrawable)

\* C11: a create_view call that succeeds on a batch whose drawables have
\* pairwise distinct ids resolves and persists a scene whose drawables have
\* pairwise distinct ids, and the widget's scene has pairwise distinct ids,
\* also when a drawable of the batch has the id of an element of the
\* restored checkpoint.
C11_ResolvedIdsDistinct ==
    (/\ last.op = "create_view"
     /\ last.outcome.status = "ok"
     /\ view.op = "final"
     /\ DistinctIds(DrawablesOf(last.input))) =>
        /\ DistinctIds(DrawablesOf(last.resolved))
        /\ DistinctIds(view.scene)

\* s is t with some of its entries left out, the others in the order of t
RECURSIVE IsSubsequence(_, _)
IsSubsequence(s, t) ==
    \/ s = << >>
    \/ /\ t # << >>
       /\ \/ Head(s) = Head(t) /\ IsSubsequence(Tail(s), Tail(t))
          \/ IsSubsequence(s, Tail(t))

\* the last n entries of s, and s without them
LastN(s, n) == SubSeq(s, Len(s) - n + 1, Len(s))
ButLastN(s, n) == SubSeq(s, 1, Len(s) - n)

\* the items of a batch that are neither a restore nor a delete directive
AppendedOf(batch) ==
    SelectSeq(batch, LAMBDA el : el.type \notin {"restoreCheckpoint", "delete"})

\* C12: in the scene a create_view call resolves, the batch's items come
\* last in their input order, and what comes before them is the loaded base
\* with some elements left out, the others in their stored order; the same
\* holds of the widget's scene, for the batch's drawables and the base the
\* widget has stored.
C12_BaseThenBatchInOrder ==
    (last.op = "create_view" /\ last.outcome.status = "ok"
        /\ view.op = "final") =>
        LET m == Len(DrawablesOf(view.input))
        IN  /\ \E n \in 0..Len(last.resolved) :
                  /\ IsSubsequence(LastN(last.resolved, n), last.input)
                  /\ DrawablesOf(LastN(last.resolved, n))
                        = DrawablesOf(last.input)
                  /\ IsSubsequence(ButLastN(last.resolved, n), last.base)
            /\ view.rendered =>
                  /\ Len(view.scene) >= m
                  /\ IdSeq(LastN(view.scene, m)) =
                        IdSeq(DrawablesOf(view.input))
                  /\ IsSubsequence(
                        ButLastN(view.scene, m),
                        IF view.hasBase
                        THEN GetItem(localStorage, view.restoreId).elements
                        ELSE << >>)

\* C12 happens: a checkpoint of two elements was restored, both stayed, and
\* a drawable was appended, on the server and in the widget
C12_Witness ==
    /\ last.op = "create_view"
    /\ last.outcome.status = "ok"
    /\ Len(last.base) = 2
    /\ Len(AppendedOf(last.input)) = 1
    /\ Len(last.resolved) = 3
    /\ view.op = "final"
    /\ view.hasBase
    /\ Len(view.scene) = 3

\* C15: every create_view call completes with a result, a success with a
\* checkpoint id or an error result, and never throws; a text that is no
\* JSON has the invalid-input error result and nothing is saved.
C15_CreateViewAlwaysCompletes ==
    (last.op = "create_view" /\ view.op \in {"final", "threw"}) =>
        /\ last.outcome.status \in {"ok", "error"}
        /\ last.outcome.status = "ok" => last.outcome.checkpointId # NoRef
        /\ (TextLength(view.text) <= MAX_INPUT_BYTES
                /\ ~JsonParse(view.text).ok) =>
              /\ last.outcome = ToolError("invalid_json")
              /\ last.saves = 0
              /\ Contents = last.before

\* the error result that names the limit of 5 MB, with nothing loaded or
\* saved and the store as it was
RejectedForSize ==
    /\ last.outcome.status = "error"
    /\ last.outcome.text = "exceeds_input_limit"
    /\ last.outcome.limit = 5 * 1024 * 1024
    /\ last.saves = 0
    /\ Contents = last.before

\* C16: create_view with an elements text longer than 5 MB and
\* save_checkpoint with a data text longer than 5 MB return the error result
\* that names the limit, whatever the text holds, and neither load nor save:
\* the store is unchanged.
C16_OversizeInputRejected ==
    /\ (last.op = "create_view" /\ view.op \in {"final", "threw"}
            /\ TextLength(view.text) > 5 * 1024 * 1024) =>
          /\ RejectedForSize
          /\ last.base = << >>
          /\ issued = last.issuedBefore
    /\ (last.op = "save_checkpoint" /\ last.length > 5 * 1024 * 1024) =>
          RejectedForSize

\* C16 happens: a store that holds a checkpoint, an oversize text that is no
\* JSON given to create_view before, and an oversize save_checkpoint
C16_Witness ==
    /\ last.op = "save_checkpoint"
    /\ last.length > 5 * 1024 * 1024
    /\ last.outcome = ToolLimitError
    /\ view.text = <<Space>> \o OversizeText \o <<Junk>>
    /\ ~JsonParse(view.text).ok
    /\ LiveIds # {}

\* the item at position j of the batch is a delete directive that names id
DeletesAt(batch, j, id) ==
    /\ batch[j].type = "delete"
    /\ id \in DeleteIdsOfItem(batch[j])

\* the drawables among the first i items of the batch
DrawablesUpTo(batch, i) == Len(DrawablesOf(SubSeq(batch, 1, i)))

\* C20: a drawable of the batch whose id is named by a delete directive
\* placed before it, and by none placed after it, is drawn by the widget as
\* it is, not marked suppressed, and is in the scene create_view resolves.
C20_EarlierDeleteHasNoEffect ==
    (/\ last.op = "create_view"
     /\ view.op = "final"
     /\ view.text = ArrayText(last.input)) =>
        \A i \in 1..Len(view.input) :
            (/\ IsDrawable(view.input[i])
             /\ \E j \in 1..(i - 1) :
                    DeletesAt(view.input, j, view.input[i].id)
             /\ ~\E j \in (i + 1)..Len(view.input) :
                    DeletesAt(view.input, j, view.input[i].id)) =>
                /\ view.drawElements[DrawablesUpTo(view.input, i)]
                      = view.input[i]
                /\ last.outcome.status = "ok" =>
                      \E k \in 1..Len(last.resolved) :
                          last.resolved[k] = view.input[i]

\* store.load(id) on the store as it was before the call
LoadedBefore(id) ==
    CASE backend = "memory" -> MemoryLoad(last.before.memory, id)
      [] backend = "file"   -> FileLoad(last.before.dir, id)
      [] backend = "redis"  -> RedisLoad(last.before.redis, id)

\* C19: a restore whose stored checkpoint is a bare array of elements takes
\* that array as the base, without a viewport: create_view resolves the
\* scene on it and succeeds, and the widget draws it.
C19_LegacyArrayRestored ==
    /\ (/\ last.op = "create_view"
        /\ view.op = "final"
        /\ view.text = ArrayText(last.input)
        /\ Truthy(last.restoreId)
        /\ LoadedBefore(last.restoreId).status = "ok"
        /\ LoadedBefore(last.restoreId).value # JsonNull
        /\ LoadedBefore(last.restoreId).value.kind = "array") =>
          /\ last.outcome.status = "ok"
          /\ last.resolved =
                BaseFiltered(LoadedBefore(last.restoreId).value.items,
                             DeleteIds(last.input)) \o NewEls(last.input)
    /\ (view.op = "final" /\ view.hasBase /\ view.saved.kind = "array") =>
          /\ view.base = SelectSeq(view.saved.items,
                                   LAMBDA el : el.id \notin view.deleteIds)
          /\ view.scene = view.base \o ConvertAll(view.drawElements)
          /\ ExtractViewport(view.input) = NoRect => view.viewport = NoRect

(***************************************************************************)
(* Properties of the selection of the backend                              *)
(***************************************************************************)
\* the connection URL, the token, is configured under one of its two names
UrlConfigured == env.KV_REST_API_URL = "set" \/ env.UPSTASH_REDIS_REST_URL = "set"
TokenConfigured ==
    env.KV_REST_API_TOKEN = "set" \/ env.UPSTASH_REDIS_REST_TOKEN = "set"

\* C18: the backend selected is the remote one exactly when both the URL and
\* the token are configured, and the in-process one in every other
\* configuration.
C18_RemoteIffUrlAndToken ==
    /\ backend \in {"redis", "memory"}
    /\ backend = "redis" <=> (UrlConfigured /\ TokenConfigured)

(***************************************************************************)
(* Properties of the stream decoder                                        *)
(***************************************************************************)
\* the first token of the text that is no white space is "["
OpensArray(str) ==
    \E i \in 1..Len(str) :
        /\ str[i] = LBracket
        /\ \A j \in 1..(i - 1) : str[j] = Space

\* the text has a "}" in it
HasClosingBrace(str) == \E i \in 1..Len(str) : HasBrace(str[i])

\* C13: the decoder returns for every text.  A text that does not open an
\* array gives the empty sequence; a text that parses gives its parse; a
\* text that does not parse gives the parse of the text cut just after its
\* last "}" with "]" appended, and the empty sequence when it has no "}" or
\* that parse fails too.
C13_DecoderBestEffort ==
    (last.op = "decode" /\ last.isFinal) =>
        /\ ~OpensArray(last.str) => last.result = << >>
        /\ (OpensArray(last.str) /\ JsonParse(last.str).ok) =>
              last.result = JsonParse(last.str).items
        /\ (OpensArray(last.str) /\ ~JsonParse(last.str).ok
                /\ ~HasClosingBrace(last.str)) =>
              last.result = << >>
        /\ (OpensArray(last.str) /\ ~JsonParse(last.str).ok
                /\ HasClosingBrace(last.str)) =>
              last.result =
                  IF JsonParse(TruncatedAtBrace(last.str)).ok
                  THEN JsonParse(TruncatedAtBrace(last.str)).items
                  ELSE << >>

\* C13 happens: a text of one object and a second object cut short does not
\* parse, and the decoder gives the one object
C13_Witness ==
    /\ last.op = "decode"
    /\ last.isFinal
    /\ last.str = <<LBracket, RectA, Comma, CutPlain>>
    /\ ~JsonParse(last.str).ok
    /\ last.result = <<RectA>>

\* C14: decoding a partial input gives the best-effort decoded sequence
\* without its last element when that sequence has two elements or more,
\* and the empty sequence when it has one element or none.
C14_PartialDropsLast ==
    (last.op = "decode" /\ ~last.isFinal) =>
        /\ Len(last.decoded) >= 2 =>
              last.result = SubSeq(last.decoded, 1, Len(last.decoded) - 1)
        /\ Len(last.decoded) <= 1 => last.result = << >>

\* C14 happens: the partial input of one complete element and a second one
\* cut short decodes to no element
C14_Witness ==
    /\ last.op = "decode"
    /\ ~last.isFinal
    /\ last.str = <<LBracket, RectA, Comma, CutPlain>>
    /\ last.decoded = <<RectA>>
    /\ last.result = << >>

(***************************************************************************)
(* Properties of the animation                                             *)
(***************************************************************************)
\* the animation from {x:100,y:100,width:400,height:300} toward
\* {x:0,y:0,width:800,height:600}
ExampleRun ==
    /\ anim.start = Scaled(StartVP)
    /\ anim.targetVP = Scaled(CameraUpdate.rect)

\* the example takes 247 ticks: the sum is above 0.5 and a frame is requested
\* before the last of them, and neither after it
ExampleSettles ==
    (ExampleRun /\ ~anim.cleaned) =>
        /\ anim.ticks <= 247
        /\ anim.ticks < 247 => (anim.pending # {} /\ AboveThreshold(Delta))
        /\ anim.ticks = 247 => (anim.pending = {} /\ ~AboveThreshold(Delta))

\* after a tick a frame is requested exactly when the sum is above 0.5
StopsAtThreshold ==
    (last.op = "tick" /\ last.moved) =>
        (anim.pending # {} <=> AboveThreshold(Delta))

\* C17: with a fixed target no tick increases the sum of the absolute deltas
\* of the four components, and a tick that starts with the sum above 0.5
\* strictly reduces it; from {100,100,400,300} toward {0,0,800,600} the sum
\* is at most 0.5 after 247 ticks and not before, and once it is at most 0.5
\* no further tick is scheduled.
C17_TickReducesDelta ==
    /\ (last.op = "tick" /\ last.moved) =>
          /\ Delta <= last.before
          /\ AboveThreshold(last.before) => Delta < last.before
    /\ ExampleSettles
    /\ StopsAtThreshold

\* C17 happens: the example has run its 247 ticks and stopped
C17_Witness ==
    /\ ExampleRun
    /\ last.op = "tick"
    /\ anim.ticks = 247
    /\ anim.pending = {}
    /\ Delta > 0

\* C17 as stated: every tick strictly reduces the sum
C17_EveryTickStrictlyReduces ==
    /\ (last.op = "tick" /\ last.moved) => Delta < last.before
    /\ ExampleSettles
    /\ StopsAtThreshold

\* C26: the first render of a view to come back sets the animated rectangle
\* to its target, the viewport or the default rectangle; every later render
\* leaves the animated rectangle as it is, and it changes after that by the
\* runs of animateViewBox only.
C26_SnapOnFirstTargetOnly ==
    [][/\ last'.op = "render" =>
             IF anim.animatedVP = NoRect
             THEN anim'.animatedVP = Scaled(last'.target)
             ELSE anim'.animatedVP = anim.animatedVP
       /\ anim'.animatedVP # anim.animatedVP =>
             \/ last'.op = "tick" /\ anim.targetVP # NoRect
             \/ last'.op = "render" /\ anim.animatedVP = NoRect]_vars

\* C26 happens: a later render came back with another target and the
\* animated rectangle has not reached it
C26_Witness ==
    /\ last.op = "render"
    /\ anim.targetVP = Scaled(last.target)
    /\ anim.animatedVP # NoRect
    /\ anim.animatedVP # anim.targetVP
    /\ anim.ticks = 0

\* C27: whatever the order in which renders come back, with a viewport or
\* without, and frames run, at most one frame is requested and neither run
\* nor cancelled.
C27_AtMostOneFramePending == Cardinality(anim.pending) <= 1

\* C27 happens: a render came back while the frame of the animation was
\* pending, cancelled it and requested another
C27_Witness ==
    /\ last.op = "render"
    /\ last.cancelled
    /\ anim.pending = {anim.animFrameRef}
    /\ anim.targetVP # NoRect

\* C28: once the cleanup of the unmount has run no frame is pending and none
\* runs or is requested, also when a render that was waiting comes back
\* after it; the view that is unmounted writes to no store.
C28_NothingAfterUnmount ==
    [][/\ anim'.cleaned => anim'.pending = {}
       /\ anim.cleaned => last'.op # "tick"
       /\ ~anim.svgRef =>
             /\ localStorage' = localStorage
             /\ writeLog' = writeLog
             /\ memoryStore' = memoryStore
             /\ dir' = dir
             /\ redis' = redis]_vars

\* C28 happens: a render that began before the unmount came back after the
\* cleanup, which had cancelled the frame that an earlier render requested
\* and that had not run
C28_Witness ==
    /\ last.op = "render_dropped"
    /\ anim.cleaned
    /\ anim.animFrameRef # 0
    /\ anim.targetVP # NoRect
    /\ anim.ticks = 0

(***************************************************************************)
(* Properties of the partial inputs                                        *)
(***************************************************************************)
\* C24: a partial input writes no checkpoint: after it the server's store
\* and the widget's localStorage hold what they held before it.
C24_PartialWritesNothing ==
    last.op \in {"partial", "partial_threw"} =>
        /\ Contents = last.before
        /\ localStorage = last.storageBefore

\* C24 happens: a partial input was rendered on a restored base while the
\* server's store and localStorage hold a checkpoint
C24_Witness ==
    /\ last.op = "partial"
    /\ last.rendered
    /\ Len(last.base) > 0
    /\ Len(last.drawElements) > 0
    /\ LiveIds # {}
    /\ localStorage # EmptyFn

\* the strokes played by the partial input at position pos of the stream
StrokesAt(pos) == SelectSeq(stream.played, LAMBDA e : e.pos = pos)

\* C25: over the partial inputs of one stream every drawable is played
\* once, by the input in which it is first among the drawables without the
\* last item, with its type; an input that brings no new drawable plays
\* nothing and no drawable is played twice.
C25_OneStrokePerDrawable ==
    /\ \A i, j \in DOMAIN stream.played :
          i # j => stream.played[i].index # stream.played[j].index
    /\ {stream.played[i].index : i \in DOMAIN stream.played} = 1..stream.seen
    /\ last.op = "partial" =>
          LET played == StrokesAt(stream.pos)
          IN  /\ {played[i].index : i \in DOMAIN played} =
                    (last.seenBefore + 1)..Len(last.drawElements)
              /\ \A i \in DOMAIN played :
                    played[i].type = last.drawElements[played[i].index].type
    /\ last.op = "partial_threw" => StrokesAt(stream.pos) = << >>

\* C25 happens: two partial inputs of a stream played one drawable each, of
\* different types, and a third one brought nothing new
C25_Witness ==
    /\ last.op = "partial"
    /\ Len(stream.played) = 2
    /\ stream.played[1].pos # stream.played[2].pos
    /\ stream.played[1].type # stream.played[2].type
    /\ StrokesAt(stream.pos) = << >>
    /\ Len(last.drawElements) = 2

\* C33: a partial input whose restore id is that of the last partial input
\* with one, and whose checkpoint is in localStorage, does not read
\* localStorage; one whose restore id is another, or the first one, does.
C33_StoreReadOncePerRestoreId ==
    (last.op = "partial" /\ Truthy(last.restoreId)) =>
        /\ (/\ last.restoreId = last.prevRestoreId
            /\ GetItem(last.storageBefore, last.restoreId) # JsonNull) =>
              ~last.read
        /\ last.restoreId # last.prevRestoreId => last.read

\* C33 happens: a partial input drew on the base that an earlier one of the
\* same restore id had read
C33_Witness ==
    /\ last.op = "partial"
    /\ Truthy(last.restoreId)
    /\ last.restoreId = last.prevRestoreId
    /\ ~last.read
    /\ Len(last.base) > 0
    /\ last.restoredRef.id = last.restoreId

\* C34: a partial input whose restore id names no checkpoint of localStorage
\* is processed without a base, whatever the earlier inputs restored; the
\* base of a partial input, when it has one, is the checkpoint its own
\* restore id names, without the elements its delete directives name.
C34_AbsentRestoreIgnored ==
    last.op = "partial" =>
        /\ (/\ Truthy(last.restoreId)
            /\ GetItem(last.storageBefore, last.restoreId) = JsonNull) =>
              last.base = << >>
        /\ Len(last.base) > 0 =>
              /\ GetItem(last.storageBefore, last.restoreId) # JsonNull
              /\ last.base =
                    SelectSeq(ItemsOf(GetItem(last.storageBefore,
                                              last.restoreId)),
                              LAMBDA el : el.id \notin last.deleteIds)

\* C35: the last item a partial input decodes to has no effect: the restore
\* id, the delete set and the drawables are those of the items before it,
\* and an input of one item draws nothing.
C35_LastItemHasNoEffect ==
    last.op = "partial" =>
        /\ last.restoreId = ExtractRestoreId(last.safe)
        /\ last.deleteIds = ExtractDeleteIds(last.safe)
        /\ last.drawElements = extractViewportAndElements(last.safe).drawElements
        /\ Len(last.parsed) = 1 => (~last.rendered /\ last.base = << >>)

(***************************************************************************)
(* Properties of the directives of a batch                                 *)
(***************************************************************************)
\* the positions of the restore directives of a batch
RestoresOf(batch) ==
    {i \in 1..Len(batch) : batch[i].type = "restoreCheckpoint"}

\* the id of the first restore directive of a batch that has one
FirstRestoreId(batch) ==
    batch[CHOOSE i \in RestoresOf(batch) :
              \A j \in RestoresOf(batch) : i <= j].id

\* C21: in a batch with restore directives the restore target is the first
\* of them in input order, for the server's resolve, for the widget's final
\* input and for its partial inputs.
C21_FirstRestoreWins ==
    /\ (last.op = "create_view" /\ RestoresOf(last.input) # {}) =>
          last.restoreId = FirstRestoreId(last.input)
    /\ (view.op = "final" /\ RestoresOf(view.input) # {}) =>
          view.restoreId = FirstRestoreId(view.input)
    /\ (last.op = "partial" /\ RestoresOf(last.parsed) # {}) =>
          last.restoreId = FirstRestoreId(last.parsed)

\* the positions of the camera directives of a batch
CamerasOf(batch) ==
    {i \in 1..Len(batch) : batch[i].type \in {"cameraUpdate", "viewportUpdate"}}

\* the rectangle of the last camera directive of a batch that has one
LastCamera(batch) ==
    batch[CHOOSE i \in CamerasOf(batch) : \A j \in CamerasOf(batch) : j <= i].rect

\* C22: the camera the widget extracts from a batch with camera directives,
\* final or partial, is the last of them in input order.
C22_LastCameraWins ==
    /\ (view.op = "final" /\ CamerasOf(view.input) # {}) =>
          view.viewport = LastCamera(view.input)
    /\ (last.op = "partial" /\ CamerasOf(last.safe) # {}) =>
          last.viewport = LastCamera(last.safe)

\* C22 happens: the final input had two cameras of different rectangles and
\* the second was taken
C22_Witness ==
    /\ view.op = "final"
    /\ Cardinality(CamerasOf(view.input)) = 2
    /\ view.input[1] = CameraStart
    /\ view.viewport = CameraUpdate.rect
    /\ view.viewport # CameraStart.rect

\* the viewport of a finalized batch: its camera, else the viewport saved
\* with the checkpoint the widget restored, else the default rectangle
ExpectedViewport ==
    IF CamerasOf(view.input) # {} THEN LastCamera(view.input)
    ELSE IF view.hasBase /\ view.saved.kind = "object"
            /\ view.saved.viewport # NoRect
    THEN view.saved.viewport
    ELSE DefaultVP

\* the final input was rendered
RenderedWithExpected ==
    (view.op = "final" /\ view.rendered /\ last.op = "create_view") =>
        svgViewportRef = ExpectedViewport

\* C23: for a finalized batch that is rendered the viewport of the render
\* is the batch's camera, else the saved viewport of the restored
\* checkpoint, else the default rectangle, and the checkpoint the widget
\* records for the call has that viewport.
C23_ViewportOfFinalBatch ==
    /\ RenderedWithExpected
    /\ (/\ view.op = "final"
        /\ view.rendered
        /\ last.op = "create_view"
        /\ last.outcome.status = "ok"
        /\ view.text = ArrayText(last.input)
        /\ last.outcome.checkpointId \in DOMAIN localStorage) =>
          localStorage[last.outcome.checkpointId].viewport = ExpectedViewport

(***************************************************************************)
(* Properties of what the tools write to the store                         *)
(***************************************************************************)
\* C29: every value that create_view or save_checkpoint has put in the
\* store is an object with an elements array, never a bare array or another
\* JSON value.
C29_WritersStoreObjects ==
    \A id \in LiveIds :
        Load(id).status = "ok" => Load(id).value.kind = "object"

\* C30: a call of a tool leaves the content under every id that was saved
\* before it, and is still there, as it was.
C30_SavedContentNeverChanges ==
    last.op \in {"create_view", "save_checkpoint"} =>
        \A id \in LiveIds :
            (/\ LoadedBefore(id).status = "ok"
             /\ LoadedBefore(id).value # JsonNull
             /\ Load(id).status = "ok") =>
                Load(id).value = LoadedBefore(id).value

(***************************************************************************)
(* Properties of the scene create_view saves                               *)
(***************************************************************************)
\* the call saved a checkpoint: store.save was given {elements: resolved}
CreateViewSaved ==
    /\ last.op = "create_view"
    /\ last.outcome.status = "ok"
    /\ last.saves = 1

\* C36: the scene create_view saves holds no drawable whose id is named by
\* a delete directive of the batch, whether the drawable came from the
\* restored checkpoint or from the batch, with or without a restore.
C36_SavedSceneIsPostDeletion ==
    CreateViewSaved =>
        \A k \in 1..Len(last.resolved) :
            IsDrawable(last.resolved[k]) =>
                last.resolved[k].id \notin DeleteIds(last.input)

\* C37: the scene create_view saves holds no delete, restoreCheckpoint or
\* cameraUpdate item, for every batch, a batch whose restore directive has
\* no id included.
C37_SavedSceneHasNoDirective ==
    CreateViewSaved =>
        \A k \in 1..Len(last.resolved) :
            last.resolved[k].type
                \notin {"delete", "restoreCheckpoint", "cameraUpdate"}


\* the ids of a list of elements, in order
IdsInOrder(els) == [i \in 1..Len(els) |-> els[i].id]

\* the elements of the restored checkpoint that the call saved again: the
\* saved scene without the new elements that follow the base
SavedBase ==
    SubSeq(last.resolved, 1, Len(last.resolved) - Len(NewEls(last.input)))

\* a final batch with a restore and a delete directive, drawn by the widget
\* and saved by the server, when localStorage and the store held the same
\* elements for the restored id
RestoredOnBothSides ==
    /\ CreateViewSaved
    /\ view.op = "final"
    /\ view.text = ArrayText(last.input)
    /\ Truthy(last.restoreId)
    /\ DeleteIds(last.input) # {}
    /\ view.hasBase
    /\ ConvertAll(ItemsOf(view.saved)) = ConvertAll(last.base)

\* C38: for a final batch with a restore and a delete directive, when
\* localStorage and the store hold the same elements for the restored id,
\* the base the widget draws has the ids of the base the server saves.
C38_ClientAndServerFilterAlike ==
    RestoredOnBothSides => IdsInOrder(view.base) = IdsInOrder(SavedBase)

(***************************************************************************)
(* Properties of the saves of the file store                               *)
(***************************************************************************)
\* the save returned and a load of its id gives its data
SavedAndStored ==
    /\ last.outcome.status = "ok"
    /\ Load(last.id) = Ok(Parse(Stringify(last.data)))

\* C31: in the file store a save whose writeFile succeeded and whose pruning
\* met a failure of readdir, of a stat or of an unlink returns without an
\* error, and its checkpoint is stored.
C31_PruneFailureNeverFailsSave ==
    (last.op = "save" /\ last.fault \in {"readdir", "stat", "unlink"}) =>
        SavedAndStored

\* C32: when two saves to the same id have overlapped and both have
\* returned, both returned without an error and a load of the id gives the
\* data of the one whose write was applied last.
C32_ConcurrentSavesLastWriteWins ==
    (/\ last.op = "save"
     /\ \A p \in Procs : calls[p].pc = "idle"
     /\ last.with # {}) =>
        /\ last.outcome.status = "ok"
        /\ Load(last.id) =
              Ok(IF last.wroteLast THEN last.data
                 ELSE CHOOSE data \in last.with : TRUE)

\* C39: in every backend, after a save that returned, a load of the same id
\* gives the data of the save: the save does not evict or prune what it
\* wrote, also at the cap and with equal write times.
C39_SaveKeepsWhatItWrote ==
    (last.op = "save" /\ last.outcome.status = "ok") =>
        /\ Load(last.id).status = "ok"
        /\ Load(last.id).value = last.data

====
